---- MODULE Spec2Model ----
(***************************************************************************)
(* A model of the LC-IMS-MS/MS feature finder (feature_finder_im.py).     *)
(*                                                                         *)
(* Numbers.  The program computes in floating point; the model computes    *)
(* in exact arithmetic.  m/z and RT are integers in units of 0.001, so     *)
(* MZ_EPSILON = 0.001 is 1, MZ_THRESHOLD = 0.01 is 10 and                   *)
(* RT_THRESHOLD = 5.0 is 5000.  IM and intensity are integers in their own *)
(* units.  bin_size = im_delta / num_bins and                               *)
(* im_offset = im_start + bin_size / 2 are rationals: every expression     *)
(* that uses them is multiplied out by 2 * num_bins.  An average IM is a   *)
(* reduced fraction <<numerator, denominator>>.                            *)
(*                                                                         *)
(* Indices.  Bins, passes and the loop index of run are 0-based as in the  *)
(* source (functions over 0..n-1); sequences of points, spectra and        *)
(* features are 1-based TLA+ sequences.                                    *)
(***************************************************************************)
EXTENDS Integers, Sequences, FiniteSets, TLC

VARIABLES
    dataset,       \* run's exp: the spectra of the input file, in acquisition order
    pc,            \* position in run: "setup", "bin", "compute", "binned", "error";
                   \* in a matching call: "internal", "pass_start", "pass_loop", "pass_done"
    num_bins,      \* self.num_bins
    im_start,      \* self.im_start
    im_end,        \* self.im_end
    exps,          \* self.exps: the write cache, exps[pass][bin] a sequence of spectra
    files,         \* the directory dir: <<pass, bin>> |-> the spectra stored in b-pass-bin.mzML
    im_scan_nums,  \* self.im_scan_nums[pass][bin]
    spec_idx,      \* run's loop variable i
    points,        \* bin_spectrum's local points at its return
    temp_bins,     \* bin_spectrum's local temp_bins at its return
    new_bins,      \* bin_spectrum's local new_bins at its return
    run_starts,    \* the values bin_spectrum's local mz_start had at each emitted point
    assigned,      \* history: every point appended to temp_bins[pass][bin] by any call
    bin_calls,     \* history: the number of bin_spectrum calls that returned
    appended,      \* history: every spectrum added to self.exps[pass][bin] by any call
    last_flush,    \* history: the files before, and the cache at, every write_exps call
    mfi_input,     \* match_features_internal: the argument features of the latest call
    mfi_features,  \* match_features_internal: features after features.sortByRT()
    mfi_similar,   \* match_features_internal: the local similar of every iteration i
    mfi_matched,   \* match_features_internal: the returned matched
    mfi_calls,     \* history: the number of match_features_internal calls made
    mfp_features,  \* match_features_pass: the argument features, one feature map per bin
    mfp_used,      \* match_features_pass: the local used
    mfp_matched,   \* match_features_pass: the local matched
    mfp_chains,    \* history: the local feature_indices of every chain built
    mfp_scans,     \* history: the scans of the while loop of the latest chain
    mfp_bin_idx,   \* match_features_pass: the loop variable bin_idx
    mfp_i,         \* match_features_pass: the loop variable i
    mf_features1,  \* match_features: the argument features1, one feature map per bin
    mf_features2,  \* match_features: the argument features2
    mf_pass1,      \* match_features: the local pass1, pairs <<feature, bin>>
    mf_pass2,      \* match_features: the local pass2, sorted by RT
    mf_used,       \* match_features: the local used of the first loop
    mf_steps,      \* history: feature1, bin1, used before and after, and similar of
                   \* every iteration of the first loop
    mf_feature_bins,  \* match_features: the local feature_bins, pairs <<feature, IM>>
    mf_clean_bins, \* match_features: the local clean_bins; cleaned holds its features
    ff_raw,        \* find_features: per pass and bin, whether run_ff ran and its result
    ff_features,   \* find_features: the value returned, <<features[0], features[1]>>
    returned,      \* run: the feature map returned, in a list that is empty before
    features_im    \* run: the rows of features-im.csv, in a list that is empty before

binVars == <<dataset, num_bins, im_start, im_end, exps, files, im_scan_nums,
             spec_idx, points, temp_bins, new_bins, run_starts, assigned, bin_calls,
             appended, last_flush>>

mfiVars == <<mfi_input, mfi_features, mfi_similar, mfi_matched, mfi_calls>>

mfpVars == <<mfp_features, mfp_used, mfp_matched, mfp_chains, mfp_scans, mfp_bin_idx, mfp_i>>

mfVars == <<mf_features1, mf_features2, mf_pass1, mf_pass2, mf_used, mf_steps,
            mf_feature_bins, mf_clean_bins>>

ffVars == <<ff_raw, ff_features, returned, features_im>>

vars == <<pc, binVars, mfiVars, mfpVars, mfVars, ffVars>>

(***************************************************************************)
(* Program constants (class attributes).                                   *)
(***************************************************************************)
MZ_EPSILON == 1
RT_THRESHOLD == 5000
MZ_THRESHOLD == 10
FLUSH_PERIOD == 500

(***************************************************************************)
(* Bounds of the model.                                                    *)
(***************************************************************************)
MaxBins == 3       \* num_bins is drawn from 1..MaxBins
MaxIM == 4         \* the IM values of a binning data set are 0..MaxIM
MaxPeaks == 3      \* peaks of the spectrum of a single-spectrum data set
MaxSpectra == 2    \* spectra of a multi-spectrum data set
RunPeaks == 1      \* peaks per MS1 spectrum of a multi-spectrum data set
MaxFeatures == 3   \* features of the bin given to match_features_internal
MaxPassBins == 3   \* bins of the pass given to match_features_pass
MaxPassFeatures == 3  \* features of all bins of that pass together
MaxReconciled == 3    \* features of the two passes given to match_features
MaxDetected == 2      \* features the feature finder returns in one run

(***************************************************************************)
(* Generic helpers.                                                        *)
(***************************************************************************)
Abs(x) == IF x < 0 THEN -x ELSE x

RECURSIVE Sum(_)
Sum(s) == IF Len(s) = 0 THEN 0 ELSE Head(s) + Sum(Tail(s))

RECURSIVE GCD(_, _)
GCD(a, b) == IF b = 0 THEN a ELSE GCD(b, a % b)

\* The reduced fraction n / d, d > 0.
Fraction(n, d) == LET g == GCD(Abs(n), d) IN <<n \div g, d \div g>>

RECURSIVE Concat(_)
Concat(ss) == IF Len(ss) = 0 THEN <<>> ELSE Head(ss) \o Concat(Tail(ss))

\* Python's list.sort(key=...): a stable sort of s, ascending by the keys
\* (keys[k] is the key of s[k]).
StableSort(s, keys) ==
    LET n == Len(s)
        rank(k) == 1 + Cardinality({j \in 1..n : \/ keys[j] < keys[k]
                                                 \/ keys[j] = keys[k] /\ j < k})
    IN  [r \in 1..n |-> s[CHOOSE k \in 1..n : rank(k) = r]]

\* Python's int(n / d) for d > 0: truncation toward zero.
TruncDiv(n, d) == IF n >= 0 THEN n \div d ELSE -((-n) \div d)

(***************************************************************************)
(* Spectra and points.  A spectrum is [rt, ms_level, peaks], a peak is     *)
(* [mz, intensity, im] (the IM of a peak is its entry of the spectrum's    *)
(* first float data array); a point is [rt, mz, intensity, im].            *)
(***************************************************************************)
\* util.get_spectrum_points
get_spectrum_points(spec) ==
    [k \in 1..Len(spec.peaks) |->
        [rt |-> spec.rt, mz |-> spec.peaks[k].mz,
         intensity |-> spec.peaks[k].intensity, im |-> spec.peaks[k].im]]

\* All points of an experiment (a sequence of spectra).
experiment_points(exp) == Concat([k \in 1..Len(exp) |-> get_spectrum_points(exp[k])])

\* util.get_im_extrema: the smallest and the largest IM of the data set.
get_im_extrema(exp) ==
    LET ims == {experiment_points(exp)[k].im : k \in 1..Len(experiment_points(exp))}
    IN  <<CHOOSE a \in ims : \A b \in ims : a <= b,
          CHOOSE a \in ims : \A b \in ims : a >= b>>

\* setup_bins: self.im_delta.  bin_size is im_delta / num_bins and im_offset
\* is im_start + im_delta / (2 * num_bins).
im_delta == im_end - im_start

\* The bins of a pass: exps[0] has num_bins entries, exps[1] has num_bins + 1.
PassBins(pass) == 0..(num_bins - 1 + pass)

(***************************************************************************)
(* bin_spectrum: the assignment of points to bins.                         *)
(***************************************************************************)
raw_idx0_round(im) == TruncDiv(2 * (im - im_start) * num_bins + im_delta, 2 * im_delta)

\* int((points[i][3] - self.im_start) / self.bin_size)
raw_idx0(im) == TruncDiv((im - im_start) * num_bins, im_delta)

clamp_idx0_none(bin_idx) == bin_idx

\* if bin_idx >= self.num_bins: bin_idx = self.num_bins - 1
clamp_idx0(bin_idx) == IF bin_idx >= num_bins THEN num_bins - 1 ELSE bin_idx

\* int((points[i][3] - self.im_offset) / self.bin_size) + 1
raw_idx1(im) == TruncDiv(2 * num_bins * (im - im_start) - im_delta, 2 * im_delta) + 1

\* points[i][3] < self.im_offset
below_offset(im) == 2 * num_bins * (im - im_start) < im_delta

clamp_idx1_no_low(im, bin_idx) ==
    IF bin_idx > num_bins THEN num_bins ELSE bin_idx

\* if points[i][3] < self.im_offset: bin_idx = 0
\* elif bin_idx > self.num_bins: bin_idx = self.num_bins
clamp_idx1(im, bin_idx) ==
    IF below_offset(im) THEN 0
    ELSE IF bin_idx > num_bins THEN num_bins ELSE bin_idx

bin_idx_of(pass, im) ==
    IF pass = 0 THEN clamp_idx0(raw_idx0(im)) ELSE clamp_idx1(im, raw_idx1(im))

\* temp_bins after the assignment loop: the points of each bin in the order
\* of points (ascending IM).  An index outside the list ends the call with
\* an IndexError (see bin_spectrum_raises).
assign_bins(pts) ==
    [pass \in {0, 1} |->
        [b \in PassBins(pass) |->
            SelectSeq(pts, LAMBDA q : bin_idx_of(pass, q.im) = b)]]

(***************************************************************************)
(* bin_spectrum: the merge of the points of one bin into runs.             *)
(***************************************************************************)
\* within_epsilon
within_epsilon(target, var) ==
    target - MZ_EPSILON <= var /\ var <= target + MZ_EPSILON

new_run_intensity_zero(bin, j) == 0

\* running_intensity = temp_bins[0][i][j][2], at the start of a new run
new_run_intensity(bin, j) == bin[j].intensity

\* point = list(temp_bins[0][i][mz_start]); point[2] = running_intensity
merged_point(bin, mz_start, running_intensity) ==
    [bin[mz_start] EXCEPT !.intensity = running_intensity]

RECURSIVE merge_loop_prev(_, _, _, _, _, _)
merge_loop_prev(bin, j, mz_start, curr_mz, running_intensity, out) ==
    IF j > Len(bin)
    THEN Append(out, [point |-> merged_point(bin, mz_start, running_intensity),
                      start |-> mz_start])
    ELSE IF within_epsilon(curr_mz, bin[j].mz)
    THEN merge_loop_prev(bin, j + 1, mz_start, bin[j].mz,
                         running_intensity + bin[j].intensity, out)
    ELSE merge_loop_prev(bin, j + 1, j, bin[j].mz, new_run_intensity(bin, j),
                         Append(out, [point |-> merged_point(bin, mz_start, running_intensity),
                                      start |-> mz_start]))

\* The loop over j of one bin (the bin sorted by m/z), from index j on, and
\* the slice emitted after it.  out is the sequence of emitted
\* [point, start] pairs: the merged point and the mz_start it was taken at.
RECURSIVE merge_loop(_, _, _, _, _, _)
merge_loop(bin, j, mz_start, curr_mz, running_intensity, out) ==
    IF j > Len(bin)
    THEN Append(out, [point |-> merged_point(bin, mz_start, running_intensity),
                      start |-> mz_start])
    ELSE IF within_epsilon(curr_mz, bin[j].mz)
    THEN merge_loop(bin, j + 1, mz_start, curr_mz,
                    running_intensity + bin[j].intensity, out)
    ELSE merge_loop(bin, j + 1, j, bin[j].mz, new_run_intensity(bin, j),
                    Append(out, [point |-> merged_point(bin, mz_start, running_intensity),
                                 start |-> mz_start]))

\* temp_bins[pass][i].sort(key=itemgetter(1))
sort_by_mz(bin) == StableSort(bin, [k \in 1..Len(bin) |-> bin[k].mz])

\* One bin of one pass: the emitted [point, start] pairs of the sorted bin.
merge_bin(sorted_bin) ==
    IF Len(sorted_bin) = 0 THEN <<>>
    ELSE merge_loop(sorted_bin, 1, 1, sorted_bin[1].mz, 0, <<>>)

\* The synthetic spectrum built from new_bins[pass][i].
binned_spectrum_no_rt(rt, merged) ==
    [rt |-> 0, ms_level |-> 1,
     peaks |-> [k \in 1..Len(merged) |->
                   [mz |-> merged[k].mz, intensity |-> merged[k].intensity,
                    im |-> merged[k].im]]]

\* new_spec: setRT, set_peaks, setFloatDataArrays
binned_spectrum(rt, merged) ==
    [rt |-> rt, ms_level |-> 1,
     peaks |-> [k \in 1..Len(merged) |->
                   [mz |-> merged[k].mz, intensity |-> merged[k].intensity,
                    im |-> merged[k].im]]]

\* bin_spectrum ends with an exception: a division by bin_size = 0, or an
\* index outside temp_bins[pass].
bin_spectrum_raises(spec) ==
    /\ Len(spec.peaks) > 0
    /\ IF im_delta = 0 THEN TRUE
       ELSE \E k \in 1..Len(spec.peaks) : \E pass \in {0, 1} :
               bin_idx_of(pass, spec.peaks[k].im) \notin PassBins(pass)

\* points.sort(key=itemgetter(3))
sort_by_im(pts) == StableSort(pts, [k \in 1..Len(pts) |-> pts[k].im])

\* The locals of bin_spectrum(spec) at its return and the cache after it.
bin_spectrum(spec) ==
    LET pts    == sort_by_im(get_spectrum_points(spec))
        tb     == assign_bins(pts)
        sorted == [pass \in {0, 1} |-> [b \in PassBins(pass) |-> sort_by_mz(tb[pass][b])]]
        merged == [pass \in {0, 1} |-> [b \in PassBins(pass) |-> merge_bin(sorted[pass][b])]]
        nb     == [pass \in {0, 1} |-> [b \in PassBins(pass) |->
                     [k \in 1..Len(merged[pass][b]) |-> merged[pass][b][k].point]]]
    IN  [points     |-> pts,
         temp_bins  |-> sorted,
         new_bins   |-> nb,
         run_starts |-> [pass \in {0, 1} |-> [b \in PassBins(pass) |->
                           [k \in 1..Len(merged[pass][b]) |-> merged[pass][b][k].start]]],
         exps       |-> [pass \in {0, 1} |-> [b \in PassBins(pass) |->
                           IF Len(sorted[pass][b]) = 0 THEN exps[pass][b]
                           ELSE Append(exps[pass][b], binned_spectrum(spec.rt, nb[pass][b]))]]]

(***************************************************************************)
(* write_exps, reset_write_cache and compute_bin_im.                       *)
(***************************************************************************)
\* The files written by write_exps, in its order: b-0-0 .. b-0-(n-1), then
\* b-1-0 .. b-1-n.
store_keys ==
    [k \in 1..(2 * num_bins + 1) |->
        IF k <= num_bins THEN <<0, k - 1>> ELSE <<1, k - num_bins - 1>>]

mzml_load_nothing(fs, key, exp) == <<>>

mzml_load_keeps_buffer(fs, key, exp) == IF key \in DOMAIN fs THEN fs[key] ELSE exp

\* ms.MzMLFile().load(path, exp) inside try/except: the experiment after
\* it.  load resets exp before it parses, so a missing file leaves it empty.
mzml_load(fs, key, exp) == IF key \in DOMAIN fs THEN fs[key] ELSE <<>>

\* ms.MzMLFile().store(path, exp)
mzml_store(fs, key, exp) ==
    [k \in (DOMAIN fs) \cup {key} |-> IF k = key THEN exp ELSE fs[k]]

\* util.combine_experiments(exp1, exp2): the spectra of exp2 appended to exp1.
combine_experiments(exp1, exp2) == exp1 \o exp2

\* The two loops of write_exps from the k-th file on; exp is its local
\* buffer, shared by all iterations.
RECURSIVE write_loop(_, _, _, _)
write_loop(k, exp, fs, cache) ==
    IF k > Len(store_keys) THEN fs
    ELSE LET key      == store_keys[k]
             loaded   == mzml_load(fs, key, exp)
             combined == combine_experiments(loaded, cache[key[1]][key[2]])
         IN  write_loop(k + 1, combined, mzml_store(fs, key, combined), cache)

\* write_exps: the files after it, given the cache.
write_exps(fs, cache) == write_loop(1, <<>>, fs, cache)

\* reset_write_cache
reset_write_cache == [pass \in {0, 1} |-> [b \in PassBins(pass) |-> <<>>]]

\* The intensity-weighted average of the IM of a sequence of points:
\* total_intensity, then the sum of im * (intensity / total_intensity).
weighted_average_im(all_points) ==
    LET total_intensity == Sum([k \in 1..Len(all_points) |-> all_points[k].intensity])
    IN  IF total_intensity # 0
        THEN Fraction(Sum([k \in 1..Len(all_points) |->
                              all_points[k].im * all_points[k].intensity]),
                      total_intensity)
        ELSE <<0, 1>>

compute_bin_im_cached(run, bin) == weighted_average_im(experiment_points(exps[run][bin]))

\* compute_bin_im(run, bin, dir)
compute_bin_im(run, bin) == weighted_average_im(experiment_points(files[<<run, bin>>]))

(***************************************************************************)
(* The data sets the model draws.  Peaks are listed in ascending m/z, as   *)
(* an mzML spectrum stores them.                                           *)
(*  - A binning data set has one MS1 spectrum of up to MaxPeaks peaks of   *)
(*    one m/z whose IM ranges over 0..MaxIM; intensities may be zero.      *)
(*  - A merging data set has one MS1 spectrum of up to MaxPeaks peaks at   *)
(*    one of two IM values whose m/z are 0.001 apart.                      *)
(*  - A multi-spectrum data set has up to MaxSpectra spectra: MS1 spectra  *)
(*    of up to RunPeaks peaks, and MS2 spectra of at most one peak.        *)
(***************************************************************************)
PeakKey(p) == p.mz * 100000 + p.intensity * 100 + p.im

PeakLists(pool, n) ==
    UNION {{s \in [1..k -> pool] : \A a \in 1..(k - 1) : PeakKey(s[a]) <= PeakKey(s[a + 1])}
           : k \in 0..n}

BinningPeaks == [mz : {100}, intensity : {0, 10}, im : 0..MaxIM]

MergingPeaks == [mz : {100, 101, 102}, intensity : {10, 30}, im : {1, 3}]

RunPeakPool == [mz : {100}, intensity : {10, 30}, im : {1, 3}]

Ms2PeakLists == {<<>>} \cup {<<[mz |-> 100, intensity |-> 10, im |-> a]>> : a \in {1, 3}}

SingleSpectrumDatasets ==
    {<<[rt |-> 0, ms_level |-> 1, peaks |-> pl]>> :
        pl \in (PeakLists(BinningPeaks, MaxPeaks) \cup PeakLists(MergingPeaks, MaxPeaks))
               \ {<<>>}}

RunSpectrumBodies ==
    [ms_level : {1}, peaks : PeakLists(RunPeakPool, RunPeaks)]
    \cup [ms_level : {2}, peaks : Ms2PeakLists]

MultiSpectrumDatasets ==
    {d \in UNION {{[k \in 1..n |-> [rt |-> k - 1, ms_level |-> body[k].ms_level,
                                    peaks |-> body[k].peaks]]
                   : body \in [1..n -> RunSpectrumBodies]} : n \in 1..MaxSpectra}
       : \E k \in 1..Len(d) : Len(d[k].peaks) > 0}

(***************************************************************************)
(* run, up to the computation of the average IM of every bin.              *)
(***************************************************************************)
\* No call of match_features_internal has been made.
mfiIdle ==
    /\ mfi_input = <<>>
    /\ mfi_features = <<>>
    /\ mfi_similar = <<>>
    /\ mfi_matched = <<>>
    /\ mfi_calls = 0

\* No call of match_features_pass has been made.
mfpIdle ==
    /\ mfp_features = <<>>
    /\ mfp_used = <<>>
    /\ mfp_matched = <<>>
    /\ mfp_chains = <<>>
    /\ mfp_scans = <<>>
    /\ mfp_bin_idx = 0
    /\ mfp_i = 0

\* No call of match_features has been made.
mfIdle ==
    /\ mf_features1 = <<>>
    /\ mf_features2 = <<>>
    /\ mf_pass1 = <<>>
    /\ mf_pass2 = <<>>
    /\ mf_used = <<>>
    /\ mf_steps = <<>>
    /\ mf_feature_bins = <<>>
    /\ mf_clean_bins = <<>>

\* find_features has not been called and run has not returned.
ffIdle ==
    /\ ff_raw = <<>>
    /\ ff_features = <<>>
    /\ returned = <<>>
    /\ features_im = <<>>

\* __init__ / reset, and the arguments of run.
InitBin ==
    /\ dataset \in SingleSpectrumDatasets \cup MultiSpectrumDatasets
    /\ pc = "setup"
    /\ mfiIdle
    /\ mfpIdle
    /\ mfIdle
    /\ ffIdle
    /\ num_bins = 0
    /\ im_start = 0
    /\ im_end = 0
    /\ exps = [pass \in {0, 1} |-> [b \in 0..(pass - 1) |-> <<>>]]
    /\ files = <<>>
    /\ im_scan_nums = [pass \in {0, 1} |-> <<>>]
    /\ spec_idx = 0
    /\ points = <<>>
    /\ temp_bins = [pass \in {0, 1} |-> <<>>]
    /\ new_bins = [pass \in {0, 1} |-> <<>>]
    /\ run_starts = [pass \in {0, 1} |-> <<>>]
    /\ assigned = [pass \in {0, 1} |-> <<>>]
    /\ bin_calls = 0
    /\ appended = [pass \in {0, 1} |-> <<>>]
    /\ last_flush = <<>>

\* self.reset(); self.num_bins = num_bins; self.setup_bins(exp)
RunSetup ==
    /\ pc = "setup"
    /\ \E n \in 1..MaxBins :
          /\ num_bins' = n
          /\ exps' = [pass \in {0, 1} |-> [b \in 0..(n - 1 + pass) |-> <<>>]]
          /\ assigned' = [pass \in {0, 1} |-> [b \in 0..(n - 1 + pass) |-> <<>>]]
          /\ appended' = [pass \in {0, 1} |-> [b \in 0..(n - 1 + pass) |-> <<>>]]
    /\ im_start' = get_im_extrema(dataset)[1]
    /\ im_end' = get_im_extrema(dataset)[2]
    /\ pc' = "bin"
    /\ UNCHANGED <<mfiVars, mfpVars, mfVars, ffVars, last_flush, dataset, files, im_scan_nums, spec_idx, points, temp_bins, new_bins,
                   run_starts, bin_calls>>

\* One iteration of the binning loop on a spectrum that is not MS1.
RunSkipSpectrum ==
    /\ pc = "bin"
    /\ spec_idx < Len(dataset)
    /\ dataset[spec_idx + 1].ms_level # 1
    /\ spec_idx' = spec_idx + 1
    /\ UNCHANGED <<mfiVars, mfpVars, mfVars, ffVars, appended, last_flush, dataset, pc, num_bins, im_start, im_end, exps, files, im_scan_nums,
                   points, temp_bins, new_bins, run_starts, assigned, bin_calls>>

\* One iteration of the binning loop on an MS1 spectrum: bin_spectrum, and
\* write_exps when i % 500 == 0.
RunBinSpectrum ==
    /\ pc = "bin"
    /\ spec_idx < Len(dataset)
    /\ dataset[spec_idx + 1].ms_level = 1
    /\ ~bin_spectrum_raises(dataset[spec_idx + 1])
    /\ LET r == bin_spectrum(dataset[spec_idx + 1])
       IN  /\ points' = r.points
           /\ temp_bins' = r.temp_bins
           /\ new_bins' = r.new_bins
           /\ run_starts' = r.run_starts
           /\ assigned' = [pass \in {0, 1} |-> [b \in PassBins(pass) |->
                              assigned[pass][b] \o r.temp_bins[pass][b]]]
           /\ appended' = [pass \in {0, 1} |-> [b \in PassBins(pass) |->
                              appended[pass][b]
                              \o SubSeq(r.exps[pass][b], Len(exps[pass][b]) + 1,
                                        Len(r.exps[pass][b]))]]
           /\ IF spec_idx % FLUSH_PERIOD = 0
              THEN /\ files' = write_exps(files, r.exps)
                   /\ exps' = reset_write_cache
                   /\ last_flush' = Append(last_flush, [files |-> files, exps |-> r.exps])
              ELSE /\ files' = files
                   /\ exps' = r.exps
                   /\ last_flush' = last_flush
    /\ bin_calls' = bin_calls + 1
    /\ spec_idx' = spec_idx + 1
    /\ UNCHANGED <<mfiVars, mfpVars, mfVars, ffVars, dataset, pc, num_bins, im_start, im_end, im_scan_nums>>

\* One iteration of the binning loop in which bin_spectrum raises: the
\* exception leaves run.
RunBinSpectrumRaises ==
    /\ pc = "bin"
    /\ spec_idx < Len(dataset)
    /\ dataset[spec_idx + 1].ms_level = 1
    /\ bin_spectrum_raises(dataset[spec_idx + 1])
    /\ pc' = "error"
    /\ UNCHANGED <<mfiVars, mfpVars, mfVars, ffVars, appended, last_flush, dataset, num_bins, im_start, im_end, exps, files, im_scan_nums,
                   spec_idx, points, temp_bins, new_bins, run_starts, assigned, bin_calls>>

\* self.write_exps(dir) after the loop.
RunFinalFlush ==
    /\ pc = "bin"
    /\ spec_idx = Len(dataset)
    /\ files' = write_exps(files, exps)
    /\ exps' = reset_write_cache
    /\ last_flush' = Append(last_flush, [files |-> files, exps |-> exps])
    /\ pc' = "compute"
    /\ UNCHANGED <<mfiVars, mfpVars, mfVars, ffVars, appended, dataset, num_bins, im_start, im_end, im_scan_nums, spec_idx, points,
                   temp_bins, new_bins, run_starts, assigned, bin_calls>>

\* The loop that fills self.im_scan_nums.
RunComputeBinIm ==
    /\ pc = "compute"
    /\ im_scan_nums' = [pass \in {0, 1} |-> [b \in PassBins(pass) |->
                           compute_bin_im(pass, b)]]
    /\ pc' = "binned"
    /\ UNCHANGED <<mfiVars, mfpVars, mfVars, ffVars, appended, last_flush, dataset, num_bins, im_start, im_end, exps, files, spec_idx, points,
                   temp_bins, new_bins, run_starts, assigned, bin_calls>>

(***************************************************************************)
(* Features.  A feature is a record [id, rt, mz, intensity, hull]: id is   *)
(* its unique id, hull the points <<x, y>> of its convex hull.  Two        *)
(* features are equal (Feature.__eq__, used by "in") when all fields are.  *)
(***************************************************************************)
\* util.polygon_area: the absolute area of an ordered polygon (shoelace).
\* The hulls of the model have an even shoelace sum.
polygon_area(hull_points) ==
    LET n == Len(hull_points)
        cross == [k \in 1..n |->
                     hull_points[k][1] * hull_points[(k % n) + 1][2]
                     - hull_points[(k % n) + 1][1] * hull_points[k][2]]
    IN  Abs(Sum(cross)) \div 2

\* util.similar_features
similar_features(feature1, feature2, rt_threshold, mz_threshold) ==
    /\ Abs(feature1.rt - feature2.rt) <= rt_threshold
    /\ Abs(feature1.mz - feature2.mz) <= mz_threshold

\* util.binary_search_left_rt: the leftmost 0-based index whose RT is at
\* least target, the length if there is none.
binary_search_left_rt(features, target) ==
    LET hits == {k \in 0..(Len(features) - 1) : features[k + 1].rt >= target}
    IN  IF hits = {} THEN Len(features) ELSE CHOOSE k \in hits : \A h \in hits : k <= h

\* FeatureMap.sortByRT sorts with std::sort, which leaves the order of
\* features of equal RT unspecified: the set of the orders it can produce.
sortByRT(features) ==
    LET n == Len(features)
        sorted == {p \in [1..n -> 1..n] :
                     /\ \A a, b \in 1..n : a # b => p[a] # p[b]
                     /\ \A k \in 1..(n - 1) : features[p[k]].rt <= features[p[k + 1]].rt}
    IN  {[k \in 1..n |-> features[p[k]]] : p \in sorted}

past_window_early(feature1, feature2) == feature2.rt >= feature1.rt + RT_THRESHOLD

\* if feature2.getRT() > feature1.getRT() + self.RT_THRESHOLD: break
past_window(feature1, feature2) == feature2.rt > feature1.rt + RT_THRESHOLD

(***************************************************************************)
(* match_features_internal.  i and j are the 0-based indices of the source.*)
(***************************************************************************)
RECURSIVE mfi_scan(_, _, _, _)
\* for j in range(first_idx, features.size()), from j on
mfi_scan(features, i, j, similar) ==
    IF j >= Len(features) THEN similar
    ELSE IF i = j THEN mfi_scan(features, i, j + 1, similar)
    ELSE IF past_window(features[i + 1], features[j + 1]) THEN similar
    ELSE IF similar_features(features[i + 1], features[j + 1], RT_THRESHOLD, MZ_THRESHOLD)
         THEN mfi_scan(features, i, j + 1, Append(similar, features[j + 1]))
         ELSE mfi_scan(features, i, j + 1, similar)

\* similar at the end of iteration i
mfi_similar_of(features, i) ==
    mfi_scan(features, i,
             binary_search_left_rt(features, features[i + 1].rt - RT_THRESHOLD), <<>>)

RECURSIVE mfi_max_feature(_, _, _, _)
\* for feature2 in similar, from similar[k] on
mfi_max_feature(similar, k, max_area, max_feature) ==
    IF k > Len(similar) THEN max_feature
    ELSE LET area == polygon_area(similar[k].hull)
         IN  IF area > max_area
             THEN mfi_max_feature(similar, k + 1, area, similar[k])
             ELSE mfi_max_feature(similar, k + 1, max_area, max_feature)

RECURSIVE mfi_loop(_, _, _)
\* for i in range(features.size()), from i on
mfi_loop(features, i, matched) ==
    IF i >= Len(features) THEN matched
    ELSE LET feature1 == features[i + 1]
             max_feature == mfi_max_feature(mfi_similar_of(features, i), 1,
                                            polygon_area(feature1.hull), feature1)
         IN  mfi_loop(features, i + 1,
                      IF \E k \in 1..Len(matched) : matched[k] = max_feature
                      THEN matched
                      ELSE Append(matched, max_feature))

\* match_features_internal(features): sortByRT, the loop, return matched.
MatchFeaturesInternal ==
    /\ pc = "internal"
    /\ mfi_calls = 0
    /\ \E sorted \in sortByRT(mfi_input) :
          /\ mfi_features' = sorted
          /\ mfi_similar' = [k \in 1..Len(sorted) |-> mfi_similar_of(sorted, k - 1)]
          /\ mfi_matched' = mfi_loop(sorted, 0, <<>>)
    /\ mfi_calls' = 1
    /\ UNCHANGED <<pc, binVars, mfVars, ffVars, mfpVars, mfi_input>>

\* match_features_internal applied to the feature map it returned.
MatchFeaturesInternalAgain ==
    /\ pc = "internal"
    /\ mfi_calls = 1
    /\ mfi_input' = mfi_matched
    /\ \E sorted \in sortByRT(mfi_matched) :
          /\ mfi_features' = sorted
          /\ mfi_similar' = [k \in 1..Len(sorted) |-> mfi_similar_of(sorted, k - 1)]
          /\ mfi_matched' = mfi_loop(sorted, 0, <<>>)
    /\ mfi_calls' = 2
    /\ UNCHANGED <<pc, binVars, mfVars, ffVars, mfpVars>>

(***************************************************************************)
(* match_features_pass.  bin_idx, next_idx, i and j are the 0-based        *)
(* indices of the source; features and used are sequences over the bins.   *)
(***************************************************************************)
\* used[next_idx][j] = True
mark_used(used, next_idx, j) == [used EXCEPT ![next_idx + 1][j + 1] = TRUE]

head_is_skipped_never(used, bin_idx, i) == FALSE

\* if used[bin_idx][i]: continue
head_is_skipped(used, bin_idx, i) == used[bin_idx + 1][i + 1]

RECURSIVE mfp_scan(_, _, _, _, _, _)
\* for j in range(first_idx, features[next_idx].size()), from j on: the
\* list similar of (feature2, j) and the updated used
mfp_scan(features, used, feature1, next_idx, j, similar) ==
    IF j >= Len(features[next_idx + 1]) THEN [similar |-> similar, used |-> used]
    ELSE IF used[next_idx + 1][j + 1]
         THEN mfp_scan(features, used, feature1, next_idx, j + 1, similar)
    ELSE IF past_window(feature1, features[next_idx + 1][j + 1])
         THEN [similar |-> similar, used |-> used]
    ELSE IF similar_features(feature1, features[next_idx + 1][j + 1],
                             RT_THRESHOLD, MZ_THRESHOLD)
         THEN mfp_scan(features, mark_used(used, next_idx, j), feature1, next_idx, j + 1,
                       Append(similar, <<features[next_idx + 1][j + 1], j>>))
         ELSE mfp_scan(features, used, feature1, next_idx, j + 1, similar)

mfp_max_area_first(similar, k, max_area, max_feature) == max_feature

RECURSIVE mfp_max_area(_, _, _, _)
\* for j in range(1, len(similar)), from similar[k] on
mfp_max_area(similar, k, max_area, max_feature) ==
    IF k > Len(similar) THEN max_feature
    ELSE LET area == polygon_area(similar[k][1].hull)
         IN  IF area > max_area
             THEN mfp_max_area(similar, k + 1, area, similar[k])
             ELSE mfp_max_area(similar, k + 1, max_area, max_feature)

RECURSIVE mfp_extend(_, _, _, _, _, _)
\* while next_idx < len(features), from next_idx on: feature_indices, used
\* and, for every scan made, the bin scanned, its used flags before the scan
\* and the list similar after it
mfp_extend(features, used, feature1, next_idx, feature_indices, scans) ==
    IF next_idx >= Len(features)
    THEN [feature_indices |-> feature_indices, used |-> used, scans |-> scans]
    ELSE LET first_idx == binary_search_left_rt(features[next_idx + 1],
                                                feature1.rt - RT_THRESHOLD)
             r == mfp_scan(features, used, feature1, next_idx, first_idx, <<>>)
             scan == [feature1 |-> feature1, next_idx |-> next_idx,
                      used_before |-> used[next_idx + 1], similar |-> r.similar]
         IN  IF Len(r.similar) = 0
             THEN [feature_indices |-> feature_indices, used |-> r.used,
                   scans |-> Append(scans, scan)]
             ELSE LET max_feature == mfp_max_area(r.similar, 2,
                                         polygon_area(r.similar[1][1].hull), r.similar[1])
                  IN  mfp_extend(features, r.used, feature1, next_idx + 1,
                                 Append(feature_indices, <<next_idx, max_feature[2]>>),
                                 Append(scans, scan))

RECURSIVE mfp_max_intensity_last(_, _, _, _, _, _)
mfp_max_intensity_last(features, feature_indices, k, max_intensity, max_feature, max_idx) ==
    IF k > Len(feature_indices) THEN <<max_feature, max_idx>>
    ELSE LET b_idx == feature_indices[k][1]
             f_idx == feature_indices[k][2]
             intensity == features[b_idx + 1][f_idx + 1].intensity
         IN  IF intensity >= max_intensity
             THEN mfp_max_intensity_last(features, feature_indices, k + 1, intensity,
                                         features[b_idx + 1][f_idx + 1], b_idx)
             ELSE mfp_max_intensity_last(features, feature_indices, k + 1, max_intensity,
                                         max_feature, max_idx)

RECURSIVE mfp_max_intensity(_, _, _, _, _, _)
\* for j in range(len(feature_indices)), from feature_indices[k] on
mfp_max_intensity(features, feature_indices, k, max_intensity, max_feature, max_idx) ==
    IF k > Len(feature_indices) THEN <<max_feature, max_idx>>
    ELSE LET b_idx == feature_indices[k][1]
             f_idx == feature_indices[k][2]
             intensity == features[b_idx + 1][f_idx + 1].intensity
         IN  IF intensity > max_intensity
             THEN mfp_max_intensity(features, feature_indices, k + 1, intensity,
                                    features[b_idx + 1][f_idx + 1], b_idx)
             ELSE mfp_max_intensity(features, feature_indices, k + 1, max_intensity,
                                    max_feature, max_idx)

RECURSIVE sort_bins_by_rt(_)
\* for i in range(len(features)): features[i].sortByRT(): the lists of
\* sorted bins the loop can leave
sort_bins_by_rt(features) ==
    IF Len(features) = 0 THEN {<<>>}
    ELSE {<<first>> \o rest : first \in sortByRT(Head(features)),
                              rest \in sort_bins_by_rt(Tail(features))}

\* The two sorting loops and the initialisation of used and matched.  The
\* order sortByPosition leaves is overwritten by sortByRT.
PassStart ==
    /\ pc = "pass_start"
    /\ mfp_features' \in sort_bins_by_rt(mfp_features)
    /\ mfp_used' = [b \in 1..Len(mfp_features) |->
                       [k \in 1..Len(mfp_features[b]) |-> FALSE]]
    /\ mfp_matched' = <<>>
    /\ mfp_bin_idx' = 0
    /\ mfp_i' = 0
    /\ pc' = "pass_loop"
    /\ UNCHANGED <<binVars, mfVars, ffVars, mfiVars, mfp_chains, mfp_scans>>

\* An iteration of the inner for loop on a used feature.
PassSkipUsed ==
    /\ pc = "pass_loop"
    /\ mfp_bin_idx < Len(mfp_features)
    /\ mfp_i < Len(mfp_features[mfp_bin_idx + 1])
    /\ head_is_skipped(mfp_used, mfp_bin_idx, mfp_i)
    /\ mfp_i' = mfp_i + 1
    /\ UNCHANGED <<pc, binVars, mfVars, ffVars, mfiVars, mfp_features, mfp_used, mfp_matched, mfp_chains,
                   mfp_scans, mfp_bin_idx>>

\* An iteration of the inner for loop on a feature that is not used: the
\* chain that starts at it, and its representative.
PassChain ==
    /\ pc = "pass_loop"
    /\ mfp_bin_idx < Len(mfp_features)
    /\ mfp_i < Len(mfp_features[mfp_bin_idx + 1])
    /\ ~head_is_skipped(mfp_used, mfp_bin_idx, mfp_i)
    /\ LET feature1 == mfp_features[mfp_bin_idx + 1][mfp_i + 1]
           chain == mfp_extend(mfp_features, mfp_used, feature1, mfp_bin_idx + 1,
                               <<<<mfp_bin_idx, mfp_i>>>>, <<>>)
       IN  /\ mfp_used' = chain.used
           /\ mfp_matched' = Append(mfp_matched,
                                    mfp_max_intensity(mfp_features, chain.feature_indices, 1,
                                                      feature1.intensity, feature1,
                                                      mfp_bin_idx))
           /\ mfp_chains' = Append(mfp_chains, chain.feature_indices)
           /\ mfp_scans' = chain.scans
    /\ mfp_i' = mfp_i + 1
    /\ UNCHANGED <<pc, binVars, mfVars, ffVars, mfiVars, mfp_features, mfp_bin_idx>>

\* The inner for loop is exhausted: the next bin_idx.
PassNextBin ==
    /\ pc = "pass_loop"
    /\ mfp_bin_idx < Len(mfp_features)
    /\ mfp_i >= Len(mfp_features[mfp_bin_idx + 1])
    /\ mfp_bin_idx' = mfp_bin_idx + 1
    /\ mfp_i' = 0
    /\ UNCHANGED <<pc, binVars, mfVars, ffVars, mfiVars, mfp_features, mfp_used, mfp_matched, mfp_chains,
                   mfp_scans>>

\* return matched
PassReturn ==
    /\ pc = "pass_loop"
    /\ mfp_bin_idx >= Len(mfp_features)
    /\ pc' = "pass_done"
    /\ UNCHANGED <<binVars, mfVars, ffVars, mfiVars, mfpVars>>

(***************************************************************************)
(* match_features.  A representative is a pair <<feature, bin>>, an entry  *)
(* of feature_bins a pair <<feature, IM>>; i and j are the 0-based indices *)
(* of the source.                                                          *)
(***************************************************************************)
RECURSIVE mfp_loop(_, _, _, _, _)
\* The two nested for loops of match_features_pass, from (bin_idx, i) on:
\* the list matched.
mfp_loop(features, used, bin_idx, i, matched) ==
    IF bin_idx >= Len(features) THEN matched
    ELSE IF i >= Len(features[bin_idx + 1])
         THEN mfp_loop(features, used, bin_idx + 1, 0, matched)
    ELSE IF head_is_skipped(used, bin_idx, i)
         THEN mfp_loop(features, used, bin_idx, i + 1, matched)
    ELSE LET feature1 == features[bin_idx + 1][i + 1]
             chain == mfp_extend(features, used, feature1, bin_idx + 1,
                                 <<<<bin_idx, i>>>>, <<>>)
         IN  mfp_loop(features, chain.used, bin_idx, i + 1,
                      Append(matched,
                             mfp_max_intensity(features, chain.feature_indices, 1,
                                               feature1.intensity, feature1, bin_idx)))

\* match_features_pass(features): the lists it can return, one for every
\* order sortByRT can leave.
match_features_pass(features) ==
    {mfp_loop(sorted,
              [b \in 1..Len(sorted) |-> [k \in 1..Len(sorted[b]) |-> FALSE]],
              0, 0, <<>>) : sorted \in sort_bins_by_rt(features)}

\* pass2.sort(key=lambda x: x[0].getRT()), and the same sort of feature_bins
sort_pairs_by_rt(pairs) == StableSort(pairs, [k \in 1..Len(pairs) |-> pairs[k][1].rt])

\* util.binary_search_left_rt2: binary_search_left_rt on a list of pairs
\* whose first component is the feature.
binary_search_left_rt2(pairs, target) ==
    LET hits == {k \in 0..(Len(pairs) - 1) : pairs[k + 1][1].rt >= target}
    IN  IF hits = {} THEN Len(pairs) ELSE CHOOSE k \in hits : \A h \in hits : k <= h

bins_adjacent_any(bin1, bin2) == TRUE

bins_adjacent_next_only(bin1, bin2) == bin1 + 1 = bin2

\* bin1 == bin2 or bin1 + 1 == bin2
bins_adjacent(bin1, bin2) == bin1 = bin2 \/ bin1 + 1 = bin2

RECURSIVE mf_scan(_, _, _, _, _, _)
\* for j in range(first_idx, len(pass2)), from j on: the list similar and
\* the updated used
mf_scan(pass2, used, feature1, bin1, j, similar) ==
    IF j >= Len(pass2) THEN [similar |-> similar, used |-> used]
    ELSE IF used[j + 1] THEN mf_scan(pass2, used, feature1, bin1, j + 1, similar)
    ELSE LET feature2 == pass2[j + 1][1]
             bin2 == pass2[j + 1][2]
         IN  IF past_window(feature1, feature2)
             THEN [similar |-> similar, used |-> used]
             ELSE IF /\ similar_features(feature1, feature2, RT_THRESHOLD, MZ_THRESHOLD)
                     /\ bins_adjacent(bin1, bin2)
                  THEN mf_scan(pass2, [used EXCEPT ![j + 1] = TRUE], feature1, bin1, j + 1,
                               Append(similar, <<feature2, bin2>>))
                  ELSE mf_scan(pass2, used, feature1, bin1, j + 1, similar)

mf_max_area_keeps_feature1(scan_nums, similar, k, max_area, max_feature) == max_feature

RECURSIVE mf_max_area(_, _, _, _, _)
\* for (feature2, bin2) in similar, from similar[k] on
mf_max_area(scan_nums, similar, k, max_area, max_feature) ==
    IF k > Len(similar) THEN max_feature
    ELSE LET feature2 == similar[k][1]
             bin2 == similar[k][2]
             area == polygon_area(feature2.hull)
         IN  IF area > max_area
             THEN mf_max_area(scan_nums, similar, k + 1, area, <<feature2, scan_nums[1][bin2]>>)
             ELSE mf_max_area(scan_nums, similar, k + 1, max_area, max_feature)

\* One iteration of for (feature1, bin1) in pass1: similar, used and the
\* entry appended to feature_bins.
mf_iteration(scan_nums, pass2, used, feature1, bin1) ==
    LET first_idx == binary_search_left_rt2(pass2, feature1.rt - RT_THRESHOLD)
        r == mf_scan(pass2, used, feature1, bin1, first_idx, <<>>)
    IN  [similar |-> r.similar, used |-> r.used,
         max_feature |-> mf_max_area(scan_nums, r.similar, 1, polygon_area(feature1.hull),
                                     <<feature1, scan_nums[0][bin1]>>)]

mf_unique_to_pass2_all(scan_nums, pass2, used) ==
    [n \in 1..Len(pass2) |-> <<pass2[n][1], scan_nums[1][pass2[n][2]]>>]

\* for j in range(len(pass2)): if not used[j]: feature_bins.append(...)
mf_unique_to_pass2(scan_nums, pass2, used) ==
    LET idx == SelectSeq([k \in 1..Len(pass2) |-> k], LAMBDA k : ~used[k])
    IN  [n \in 1..Len(idx) |-> <<pass2[idx[n]][1], scan_nums[1][pass2[idx[n]][2]]>>]

RECURSIVE mfc_scan(_, _, _, _, _)
\* The cleanup's for j in range(first_idx, len(feature_bins)), from j on
mfc_scan(feature_bins, used, i, j, similar) ==
    IF j >= Len(feature_bins) THEN [similar |-> similar, used |-> used]
    ELSE IF used[j + 1] THEN mfc_scan(feature_bins, used, i, j + 1, similar)
    ELSE IF past_window(feature_bins[i + 1][1], feature_bins[j + 1][1])
         THEN [similar |-> similar, used |-> used]
    ELSE IF /\ similar_features(feature_bins[i + 1][1], feature_bins[j + 1][1],
                                RT_THRESHOLD, MZ_THRESHOLD)
            /\ feature_bins[i + 1][2] = feature_bins[j + 1][2]
         THEN mfc_scan(feature_bins, [used EXCEPT ![j + 1] = TRUE], i, j + 1,
                       Append(similar, feature_bins[j + 1]))
         ELSE mfc_scan(feature_bins, used, i, j + 1, similar)

RECURSIVE mfc_max_area(_, _, _, _)
\* for feature in similar, from similar[k] on
mfc_max_area(similar, k, max_area, max_feature) ==
    IF k > Len(similar) THEN max_feature
    ELSE LET area == polygon_area(similar[k][1].hull)
         IN  IF area > max_area
             THEN mfc_max_area(similar, k + 1, area, similar[k])
             ELSE mfc_max_area(similar, k + 1, max_area, max_feature)

RECURSIVE mfc_loop(_, _, _, _)
\* The cleanup's for i in range(len(feature_bins)), from i on: clean_bins
mfc_loop(feature_bins, used, i, clean_bins) ==
    IF i >= Len(feature_bins) THEN clean_bins
    ELSE IF used[i + 1] THEN mfc_loop(feature_bins, used, i + 1, clean_bins)
    ELSE LET first_idx == binary_search_left_rt2(feature_bins,
                                                 feature_bins[i + 1][1].rt - RT_THRESHOLD)
             r == mfc_scan(feature_bins, [used EXCEPT ![i + 1] = TRUE], i, first_idx, <<>>)
             max_feature == mfc_max_area(r.similar, 1,
                                         polygon_area(feature_bins[i + 1][1].hull),
                                         feature_bins[i + 1])
         IN  mfc_loop(feature_bins, r.used, i + 1, Append(clean_bins, max_feature))

\* cleaned: the feature map that holds max_feature[0] of every clean_bins entry
cleaned_of(clean_bins) == [k \in 1..Len(clean_bins) |-> clean_bins[k][1]]

\* The two calls of match_features_pass, used, feature_bins and the sort of
\* pass2.
MatchFeaturesPasses ==
    /\ pc = "mf_start"
    /\ mf_pass1' \in match_features_pass(mf_features1)
    /\ \E pass2 \in match_features_pass(mf_features2) :
          /\ mf_used' = [k \in 1..Len(pass2) |-> FALSE]
          /\ mf_pass2' = sort_pairs_by_rt(pass2)
    /\ mf_feature_bins' = <<>>
    /\ mf_steps' = <<>>
    /\ pc' = "mf_step1"
    /\ UNCHANGED <<binVars, mfiVars, mfpVars, ffVars, mf_features1, mf_features2, mf_clean_bins>>

\* One iteration of for (feature1, bin1) in pass1.
MatchFeaturesStep1 ==
    /\ pc = "mf_step1"
    /\ Len(mf_steps) < Len(mf_pass1)
    /\ LET feature1 == mf_pass1[Len(mf_steps) + 1][1]
           bin1 == mf_pass1[Len(mf_steps) + 1][2]
           r == mf_iteration(im_scan_nums, mf_pass2, mf_used, feature1, bin1)
       IN  /\ mf_used' = r.used
           /\ mf_feature_bins' = Append(mf_feature_bins, r.max_feature)
           /\ mf_steps' = Append(mf_steps,
                                 [feature1 |-> feature1, bin1 |-> bin1,
                                  used_before |-> mf_used, used_after |-> r.used,
                                  similar |-> r.similar, max_feature |-> r.max_feature])
    /\ UNCHANGED <<pc, binVars, mfiVars, mfpVars, ffVars, mf_features1, mf_features2, mf_pass1,
                   mf_pass2, mf_clean_bins>>

\* The features unique to the second pass, and the sort of feature_bins.
MatchFeaturesStep2 ==
    /\ pc = "mf_step1"
    /\ Len(mf_steps) >= Len(mf_pass1)
    /\ mf_feature_bins' = sort_pairs_by_rt(mf_feature_bins
                                           \o mf_unique_to_pass2(im_scan_nums, mf_pass2, mf_used))
    /\ pc' = "mf_cleanup"
    /\ UNCHANGED <<binVars, mfiVars, mfpVars, ffVars, mf_features1, mf_features2, mf_pass1, mf_pass2,
                   mf_used, mf_steps, mf_clean_bins>>

\* The cleanup loop, and return cleaned, clean_bins.
MatchFeaturesCleanup ==
    /\ pc = "mf_cleanup"
    /\ mf_clean_bins' = mfc_loop(mf_feature_bins,
                                 [k \in 1..Len(mf_feature_bins) |-> FALSE], 0, <<>>)
    /\ pc' = "mf_done"
    /\ UNCHANGED <<binVars, mfiVars, mfpVars, ffVars, mf_features1, mf_features2, mf_pass1, mf_pass2,
                   mf_used, mf_steps, mf_feature_bins>>

(***************************************************************************)
(* find_features and the end of run.  run_ff calls the feature finder of   *)
(* OpenMS, whose result the program does not determine: the model draws it *)
(* from the feature maps of up to MaxDetected features.  The model runs    *)
(* with pp_type = 'none' and filter = 'none', so that new_exp is the       *)
(* experiment loaded from the file of the bin.                             *)
(***************************************************************************)
ff_nb_both_passes(pass) == IF pass = 0 THEN num_bins ELSE num_bins + 1

\* nb = [self.num_bins, 0 if self.num_bins == 1 else self.num_bins + 1]
ff_nb(pass) == IF pass = 0 THEN num_bins ELSE IF num_bins = 1 THEN 0 ELSE num_bins + 1

\* util.has_peaks: some spectrum of the experiment has a peak.
has_peaks(exp) == \E k \in 1..Len(exp) : Len(exp[k].peaks) > 0

\* match_features_internal(features): the feature maps it can return, one
\* for every order sortByRT can leave.
match_features_internal(features) ==
    {mfi_loop(sorted, 0, <<>>) : sorted \in sortByRT(features)}

RECURSIVE ff_deduplicated(_)
\* temp_features = self.match_features_internal(temp_features) for every
\* bin of a pass: the lists features[j] the loop can build
ff_deduplicated(maps) ==
    IF Len(maps) = 0 THEN {<<>>}
    ELSE {<<first>> \o rest : first \in match_features_internal(Head(maps)),
                              rest \in ff_deduplicated(Tail(maps))}

\* The hull of a drawn feature: a rectangle of area w.
hull_of_area(w) == <<<<0, 0>>, <<w, 0>>, <<w, 1>>, <<0, 1>>>>

\* The order in which drawn feature bodies are listed.
BodyKey(body) == ((body.rt * 1000 + body.mz) * 10 + body.intensity) * 10 + body.area

\* A drawn feature.
make_feature(id, body) ==
    [id |-> id, rt |-> body.rt, mz |-> body.mz, intensity |-> body.intensity,
     hull |-> hull_of_area(body.area)]

DetectedBodies ==
    {[rt |-> 0, mz |-> 200, intensity |-> 1, area |-> 1],
     [rt |-> 0, mz |-> 200, intensity |-> 1, area |-> 2],
     [rt |-> RT_THRESHOLD + 1, mz |-> 200, intensity |-> 1, area |-> 1]}

\* The feature finder's results on all bins: up to n features, each in a
\* bin of a pass, listed by pass, bin and body.
DetectorSlotLists(n) ==
    UNION {{s \in [1..m -> [pass : {0, 1}, bin : 0..MaxBins, body : DetectedBodies]] :
               \A a \in 1..(m - 1) :
                  \/ s[a].pass < s[a + 1].pass
                  \/ s[a].pass = s[a + 1].pass /\ s[a].bin < s[a + 1].bin
                  \/ /\ s[a].pass = s[a + 1].pass
                     /\ s[a].bin = s[a + 1].bin
                     /\ BodyKey(s[a].body) <= BodyKey(s[a + 1].body)}
           : m \in 0..n}

\* The feature maps of the nb bins of a pass that hold the features of the
\* slots; the unique id of a feature is the index of its slot.
slot_bins(pass, nb, slots) ==
    [b \in 1..nb |->
        LET idx == SelectSeq([k \in 1..Len(slots) |-> k],
                             LAMBDA k : slots[k].pass = pass /\ slots[k].bin = b - 1)
        IN  [j \in 1..Len(idx) |-> make_feature(idx[j], slots[idx[j]].body)]]

\* find_features: for every bin of nb, the load of its file, run_ff if the
\* experiment has peaks, match_features_internal and setUniqueIds (the ids
\* of the model are unique already).
RunFindFeatures ==
    /\ pc = "binned"
    /\ \E slots \in DetectorSlotLists(MaxDetected) :
          /\ \A a \in 1..Len(slots) :
                /\ slots[a].bin < ff_nb(slots[a].pass)
                /\ has_peaks(mzml_load(files, <<slots[a].pass, slots[a].bin>>, <<>>))
          /\ ff_raw' = [pass \in {0, 1} |-> [b \in 1..ff_nb(pass) |->
                           [ran |-> has_peaks(mzml_load(files, <<pass, b - 1>>, <<>>)),
                            features |-> slot_bins(pass, ff_nb(pass), slots)[b]]]]
          /\ \E features1 \in ff_deduplicated(slot_bins(0, ff_nb(0), slots)) :
             \E features2 \in ff_deduplicated(slot_bins(1, ff_nb(1), slots)) :
                ff_features' = <<features1, features2>>
    /\ pc' = "found"
    /\ UNCHANGED <<binVars, mfiVars, mfpVars, mfVars, returned, features_im>>

\* if self.num_bins == 1: features1[0].setUniqueIds(); return features1[0]
RunReturnSingleBin ==
    /\ pc = "found"
    /\ num_bins = 1
    /\ returned' = <<ff_features[1][1]>>
    /\ pc' = "done"
    /\ UNCHANGED <<binVars, mfiVars, mfpVars, mfVars, ff_raw, ff_features, features_im>>

\* The call self.match_features(features1, features2).
RunMatchFeatures ==
    /\ pc = "found"
    /\ num_bins # 1
    /\ mf_features1' = ff_features[1]
    /\ mf_features2' = ff_features[2]
    /\ pc' = "mf_start"
    /\ UNCHANGED <<binVars, mfiVars, mfpVars, ffVars, mf_pass1, mf_pass2, mf_used, mf_steps,
                   mf_feature_bins, mf_clean_bins>>

\* indexed_bins
indexed_bins(feature_bins) ==
    [k \in 1..Len(feature_bins) |->
        <<feature_bins[k][1].rt, feature_bins[k][1].mz, feature_bins[k][2]>>]

\* os.remove of b-0-i and b-1-i for i < num_bins, and of b-1-num_bins
remove_temp_files(fs) ==
    LET removed == {<<j, i>> : j \in {0, 1}, i \in 0..(num_bins - 1)} \cup {<<1, num_bins>>}
    IN  [k \in (DOMAIN fs) \ removed |-> fs[k]]

\* The end of run after match_features returned: features-im.csv, the
\* removal of the temporary files unless debug, return all_features.
RunFinish ==
    /\ pc = "mf_done"
    /\ returned' = <<cleaned_of(mf_clean_bins)>>
    /\ features_im' = <<indexed_bins(mf_clean_bins)>>
    /\ \E debug \in BOOLEAN :
          files' = IF debug THEN files ELSE remove_temp_files(files)
    /\ pc' = "done"
    /\ UNCHANGED <<mfiVars, mfpVars, mfVars, ff_raw, ff_features, appended, last_flush, dataset,
                   num_bins, im_start, im_end, exps, im_scan_nums, spec_idx, points, temp_bins,
                   new_bins, run_starts, assigned, bin_calls>>

Init == InitBin

Next ==
    \/ RunSetup
    \/ RunSkipSpectrum
    \/ RunBinSpectrum
    \/ RunBinSpectrumRaises
    \/ RunFinalFlush
    \/ RunComputeBinIm

Spec == Init /\ [][Next]_vars

(***************************************************************************)
(* The matching functions, applied to drawn feature maps.                  *)
(*  - match_features_internal gets up to MaxFeatures features whose RT are *)
(*    0, RT_THRESHOLD and RT_THRESHOLD + 0.001, whose m/z are 0.2,         *)
(*    0.2 + MZ_THRESHOLD and 0.2 + MZ_THRESHOLD + 0.001, and whose hulls   *)
(*    have the areas 1, 2 and 3.                                           *)
(*  - match_features_pass gets up to MaxPassBins bins of together up to    *)
(*    MaxPassFeatures features of one m/z with the same RT values, whose   *)
(*    (area, intensity) is (1, 2) or (2, 1).                               *)
(* The unique id of a feature is its position in the drawn list.           *)
(***************************************************************************)
RtValues == {0, RT_THRESHOLD, RT_THRESHOLD + 1}

FeatureBodies ==
    [rt : RtValues, mz : {200, 200 + MZ_THRESHOLD, 200 + MZ_THRESHOLD + 1},
     intensity : {1}, area : {1, 2, 3}]

PassFeatureBodies ==
    {[rt |-> r, mz |-> 200, intensity |-> shape[2], area |-> shape[1]] :
        r \in RtValues, shape \in {<<1, 2>>, <<2, 1>>}}

FeatureLists(pool, n) ==
    UNION {{[k \in 1..m |-> make_feature(k, bodies[k])] :
               bodies \in {s \in [1..m -> pool] :
                              \A a \in 1..(m - 1) : BodyKey(s[a]) <= BodyKey(s[a + 1])}}
           : m \in 0..n}

PassSlotLists(nb, n) ==
    UNION {{s \in [1..m -> [bin : 0..(nb - 1), body : PassFeatureBodies]] :
               \A a \in 1..(m - 1) :
                  \/ s[a].bin < s[a + 1].bin
                  \/ s[a].bin = s[a + 1].bin /\ BodyKey(s[a].body) <= BodyKey(s[a + 1].body)}
           : m \in 0..n}

pass_bins(nb, slots) ==
    [b \in 1..nb |->
        LET idx == SelectSeq([k \in 1..Len(slots) |-> k], LAMBDA k : slots[k].bin = b - 1)
        IN  [j \in 1..Len(idx) |-> make_feature(idx[j], slots[idx[j]].body)]]

PassInputs ==
    UNION {{pass_bins(nb, slots) : slots \in PassSlotLists(nb, MaxPassFeatures)}
           : nb \in 0..MaxPassBins}

\* run has not been called.
binIdle ==
    /\ dataset = <<>>
    /\ num_bins = 0
    /\ im_start = 0
    /\ im_end = 0
    /\ exps = [pass \in {0, 1} |-> [b \in 0..(pass - 1) |-> <<>>]]
    /\ files = <<>>
    /\ im_scan_nums = [pass \in {0, 1} |-> <<>>]
    /\ spec_idx = 0
    /\ points = <<>>
    /\ temp_bins = [pass \in {0, 1} |-> <<>>]
    /\ new_bins = [pass \in {0, 1} |-> <<>>]
    /\ run_starts = [pass \in {0, 1} |-> <<>>]
    /\ assigned = [pass \in {0, 1} |-> <<>>]
    /\ bin_calls = 0
    /\ appended = [pass \in {0, 1} |-> <<>>]
    /\ last_flush = <<>>

\* The argument of match_features_internal.
InitInternal ==
    /\ pc = "internal"
    /\ binIdle
    /\ mfpIdle
    /\ mfIdle
    /\ ffIdle
    /\ mfi_input \in FeatureLists(FeatureBodies, MaxFeatures)
    /\ mfi_features = <<>>
    /\ mfi_similar = <<>>
    /\ mfi_matched = <<>>
    /\ mfi_calls = 0

\* The argument of match_features_pass.
InitPass ==
    /\ pc = "pass_start"
    /\ binIdle
    /\ mfiIdle
    /\ mfIdle
    /\ ffIdle
    /\ mfp_features \in PassInputs
    /\ mfp_used = <<>>
    /\ mfp_matched = <<>>
    /\ mfp_chains = <<>>
    /\ mfp_scans = <<>>
    /\ mfp_bin_idx = 0
    /\ mfp_i = 0

InitMatch == InitInternal \/ InitPass

NextMatch ==
    \/ MatchFeaturesInternal
    \/ MatchFeaturesInternalAgain
    \/ PassStart
    \/ PassSkipUsed
    \/ PassChain
    \/ PassNextBin
    \/ PassReturn

SpecMatch == InitMatch /\ [][NextMatch]_vars

(***************************************************************************)
(* match_features, applied to drawn feature maps: features1 has two bins   *)
(* and features2 three, which together hold up to MaxReconciled features   *)
(* of one m/z whose RT are 0, RT_THRESHOLD and RT_THRESHOLD + 0.001 and    *)
(* whose (area, intensity) is (1, 2) or (2, 1).  The average IM of pass-0  *)
(* bin b is 4b + 4; the one of pass-1 bin b is 4b + 2, or the IM of pass-0 *)
(* bin b, or 4b (the IM of pass-0 bin b - 1 when b > 0).                   *)
(***************************************************************************)
ReconcileBodies ==
    {[rt |-> r, mz |-> 200, intensity |-> 3 - a, area |-> a] : r \in RtValues, a \in {1, 2}}

ReconcileSlotLists(n) ==
    UNION {{s \in [1..m -> [pass : {0, 1}, bin : 0..2, body : ReconcileBodies]] :
               /\ \A a \in 1..m : s[a].pass = 0 => s[a].bin < 2
               /\ \A a \in 1..(m - 1) :
                     \/ s[a].pass < s[a + 1].pass
                     \/ s[a].pass = s[a + 1].pass /\ s[a].bin < s[a + 1].bin
                     \/ /\ s[a].pass = s[a + 1].pass
                        /\ s[a].bin = s[a + 1].bin
                        /\ BodyKey(s[a].body) <= BodyKey(s[a + 1].body)}
           : m \in 0..n}

ReconcileScanNums ==
    {[pass \in {0, 1} |->
         [b \in 0..(1 + pass) |-> IF pass = 0 THEN <<4 * b + 4, 1>> ELSE <<4 * b + shift, 1>>]]
     : shift \in {2, 4, 0}}

\* The arguments of match_features and the average IM of the bins.
InitReconcile ==
    /\ pc = "mf_start"
    /\ dataset = <<>>
    /\ num_bins = 2
    /\ im_start = 0
    /\ im_end = 0
    /\ exps = [pass \in {0, 1} |-> [b \in 0..(pass - 1) |-> <<>>]]
    /\ files = <<>>
    /\ im_scan_nums \in ReconcileScanNums
    /\ spec_idx = 0
    /\ points = <<>>
    /\ temp_bins = [pass \in {0, 1} |-> <<>>]
    /\ new_bins = [pass \in {0, 1} |-> <<>>]
    /\ run_starts = [pass \in {0, 1} |-> <<>>]
    /\ assigned = [pass \in {0, 1} |-> <<>>]
    /\ bin_calls = 0
    /\ appended = [pass \in {0, 1} |-> <<>>]
    /\ last_flush = <<>>
    /\ mfiIdle
    /\ mfpIdle
    /\ ffIdle
    /\ \E slots \in ReconcileSlotLists(MaxReconciled) :
          /\ mf_features1 = slot_bins(0, 2, slots)
          /\ mf_features2 = slot_bins(1, 3, slots)
    /\ mf_pass1 = <<>>
    /\ mf_pass2 = <<>>
    /\ mf_used = <<>>
    /\ mf_steps = <<>>
    /\ mf_feature_bins = <<>>
    /\ mf_clean_bins = <<>>

NextReconcile ==
    \/ MatchFeaturesPasses
    \/ MatchFeaturesStep1
    \/ MatchFeaturesStep2
    \/ MatchFeaturesCleanup

SpecReconcile == InitReconcile /\ [][NextReconcile]_vars

(***************************************************************************)
(* run as a whole, on data sets of one MS1 spectrum at RT 0 whose peaks    *)
(* have one m/z and distinct IM values among 0, 1 and 2, alone or after an *)
(* MS2 spectrum.                                                           *)
(***************************************************************************)
RunAnalytePeaks == [mz : {100}, intensity : {10}, im : {0, 1, 2}]

RunDatasets ==
    UNION {{<<[rt |-> 0, ms_level |-> 1, peaks |-> pl]>>,
            <<[rt |-> 0, ms_level |-> 2, peaks |-> <<>>],
              [rt |-> 1, ms_level |-> 1, peaks |-> pl]>>}
           : pl \in {s \in PeakLists(RunAnalytePeaks, 3) :
                        /\ Len(s) > 0
                        /\ \A a \in 1..(Len(s) - 1) : s[a].im < s[a + 1].im}}

InitRun ==
    /\ dataset \in RunDatasets
    /\ pc = "setup"
    /\ mfiIdle
    /\ mfpIdle
    /\ mfIdle
    /\ ffIdle
    /\ num_bins = 0
    /\ im_start = 0
    /\ im_end = 0
    /\ exps = [pass \in {0, 1} |-> [b \in 0..(pass - 1) |-> <<>>]]
    /\ files = <<>>
    /\ im_scan_nums = [pass \in {0, 1} |-> <<>>]
    /\ spec_idx = 0
    /\ points = <<>>
    /\ temp_bins = [pass \in {0, 1} |-> <<>>]
    /\ new_bins = [pass \in {0, 1} |-> <<>>]
    /\ run_starts = [pass \in {0, 1} |-> <<>>]
    /\ assigned = [pass \in {0, 1} |-> <<>>]
    /\ bin_calls = 0
    /\ appended = [pass \in {0, 1} |-> <<>>]
    /\ last_flush = <<>>

NextRun ==
    \/ RunSetup
    \/ RunSkipSpectrum
    \/ RunBinSpectrum
    \/ RunBinSpectrumRaises
    \/ RunFinalFlush
    \/ RunComputeBinIm
    \/ RunFindFeatures
    \/ RunReturnSingleBin
    \/ RunMatchFeatures
    \/ MatchFeaturesPasses
    \/ MatchFeaturesStep1
    \/ MatchFeaturesStep2
    \/ MatchFeaturesCleanup
    \/ RunFinish

SpecRun == InitRun /\ [][NextRun]_vars

(***************************************************************************)
(* Properties.                                                             *)
(***************************************************************************)
\* The set of the entries of the sequence s.
Elements(s) == {s[k] : k \in 1..Len(s)}

(***************************************************************************)
(* match_features_pass: chains.                                            *)
(***************************************************************************)
\* The feature at the (bin, index) pair m of a chain.
chain_feature(m) == mfp_features[m[1] + 1][m[2] + 1]

chain_is_used(used, m) == used[m[1] + 1][m[2] + 1]

\* Chains are disjoint and no chain holds a pair twice; the head of a chain
\* is not marked used and its links are; there is one representative per
\* chain, a member of the chain together with its bin.
C1_ChainsState ==
    pc \in {"pass_loop", "pass_done"} =>
        /\ \A c, d \in 1..Len(mfp_chains) :
              \A k \in 1..Len(mfp_chains[c]), l \in 1..Len(mfp_chains[d]) :
                 mfp_chains[c][k] = mfp_chains[d][l] => c = d /\ k = l
        /\ \A c \in 1..Len(mfp_chains) :
              /\ Len(mfp_chains[c]) >= 1
              /\ ~chain_is_used(mfp_used, mfp_chains[c][1])
              /\ \A k \in 2..Len(mfp_chains[c]) : chain_is_used(mfp_used, mfp_chains[c][k])
        /\ Len(mfp_matched) = Len(mfp_chains)
        /\ \A c \in 1..Len(mfp_chains) :
              \E k \in 1..Len(mfp_chains[c]) :
                 mfp_matched[c] = <<chain_feature(mfp_chains[c][k]), mfp_chains[c][k][1]>>
        /\ pc = "pass_done" =>
              \A b \in 1..Len(mfp_features) : \A i \in 1..Len(mfp_features[b]) :
                 mfp_used[b][i] <=> ~(\E c \in 1..Len(mfp_chains) :
                                         mfp_chains[c][1] = <<b - 1, i - 1>>)

\* A step never clears a used flag, starts at most one chain, and starts it
\* at a feature that is not marked used.
C1_ChainsStep ==
    /\ \A b \in DOMAIN mfp_used : \A i \in DOMAIN mfp_used[b] :
          mfp_used[b][i] => mfp_used'[b][i]
    /\ Len(mfp_chains') \in {Len(mfp_chains), Len(mfp_chains) + 1}
    /\ Len(mfp_chains') = Len(mfp_chains) + 1 =>
          /\ SubSeq(mfp_chains', 1, Len(mfp_chains)) = mfp_chains
          /\ ~chain_is_used(mfp_used, mfp_chains'[Len(mfp_chains')][1])

\* C1: in match_features_pass every (bin, feature) is a member of at most
\* one chain, a feature marked used is never started as a chain head, a
\* used flag once set is never cleared, and exactly one representative is
\* emitted per chain.
C1_ChainsAreDisjoint == []C1_ChainsState /\ [][C1_ChainsStep]_vars

\* The pass returned two chains, one of them with a link: the link was
\* marked used and skipped when the loop reached it.
C1_Witness ==
    /\ pc = "pass_done"
    /\ Len(mfp_chains) = 2
    /\ \E c \in 1..Len(mfp_chains) :
          /\ Len(mfp_chains[c]) = 2
          /\ chain_is_used(mfp_used, mfp_chains[c][2])

(***************************************************************************)
(* match_features_internal: idempotence and the RT band.                   *)
(***************************************************************************)
\* C2: match_features_internal applied to its own output returns exactly
\* the features of that output.
C2_InternalIsIdempotent ==
    (pc = "internal" /\ mfi_calls = 2) => Elements(mfi_matched) = Elements(mfi_input)

\* C3: two features whose m/z are within MZ_THRESHOLD are merged into one
\* representative when their RT differ by exactly RT_THRESHOLD, and both
\* survive when their RT differ by exactly RT_THRESHOLD + 0.001.
C3_RtBandIsInclusive ==
    (/\ pc = "internal"
     /\ mfi_calls = 1
     /\ Len(mfi_features) = 2
     /\ Abs(mfi_features[1].mz - mfi_features[2].mz) <= MZ_THRESHOLD) =>
        /\ Abs(mfi_features[1].rt - mfi_features[2].rt) = RT_THRESHOLD =>
              Len(mfi_matched) = 1
        /\ Abs(mfi_features[1].rt - mfi_features[2].rt) = RT_THRESHOLD + 1 =>
              Elements(mfi_matched) = Elements(mfi_features)

(***************************************************************************)
(* The windowed scans.                                                     *)
(***************************************************************************)
\* The peers of features[i] an all-pairs scan collects, in the order of
\* features (i is 1-based).
all_pairs_peers(features, i) ==
    LET idx == SelectSeq([k \in 1..Len(features) |-> k],
                         LAMBDA k : /\ k # i
                                    /\ similar_features(features[i], features[k],
                                                        RT_THRESHOLD, MZ_THRESHOLD))
    IN  [k \in 1..Len(idx) |-> features[idx[k]]]

\* The candidates of a scan of match_features_pass an all-pairs scan
\* collects: the features of the bin that were not used and are similar.
all_pairs_candidates(scan) ==
    LET bin == mfp_features[scan.next_idx + 1]
        idx == SelectSeq([k \in 1..Len(bin) |-> k],
                         LAMBDA k : /\ ~scan.used_before[k]
                                    /\ similar_features(scan.feature1, bin[k],
                                                        RT_THRESHOLD, MZ_THRESHOLD))
    IN  [k \in 1..Len(idx) |-> <<bin[idx[k]], idx[k] - 1>>]

\* C4: the scan that starts at binary_search_left_rt(f1.RT - RT_THRESHOLD)
\* and breaks at the first feature with RT > f1.RT + RT_THRESHOLD collects
\* every similar feature: the peers of match_features_internal, and the
\* candidates of every scan of match_features_pass, are those of a scan of
\* all features.
C4_WindowedScanHasNoFalseNegatives ==
    /\ (pc = "internal" /\ mfi_calls >= 1) =>
          \A i \in 1..Len(mfi_features) :
             mfi_similar[i] = all_pairs_peers(mfi_features, i)
    /\ pc \in {"pass_loop", "pass_done"} =>
          \A s \in 1..Len(mfp_scans) :
             mfp_scans[s].similar = all_pairs_candidates(mfp_scans[s])

\* Three features of one m/z and of the RT 0, RT_THRESHOLD and
\* RT_THRESHOLD + 0.001: the scan of the first stops at the last and has
\* collected the second, at the upper edge of its window; the scan of the
\* last starts at the second, at the lower edge of its window.
C4_Witness ==
    /\ pc = "internal"
    /\ mfi_calls = 1
    /\ Len(mfi_features) = 3
    /\ mfi_features[1].rt = 0
    /\ mfi_features[2].rt = RT_THRESHOLD
    /\ mfi_features[3].rt = RT_THRESHOLD + 1
    /\ mfi_similar[1] = <<mfi_features[2]>>
    /\ mfi_similar[3] = <<mfi_features[2]>>

(***************************************************************************)
(* Properties of bin_spectrum.                                             *)
(***************************************************************************)
\* The number of entries of the sequence s equal to v.
Count(s, v) == Cardinality({k \in 1..Len(s) : s[k] = v})

Clamp(k, lo, hi) == IF k < lo THEN lo ELSE IF k > hi THEN hi ELSE k

\* f = floor((im - im_start) / bin_size), with bin_size = im_delta / num_bins.
IsFloorPass0(im, f) ==
    /\ f * im_delta <= (im - im_start) * num_bins
    /\ (im - im_start) * num_bins < (f + 1) * im_delta

\* The pass-0 bins the statement allows for a point of this IM.
ExpectedBin0(im) ==
    {Clamp(f, 0, num_bins - 1) : f \in {g \in (-1)..(num_bins + 1) : IsFloorPass0(im, g)}}

\* C5: after every bin_spectrum call that returns, each pass-0 bin holds
\* exactly the points of the spectrum whose floor((IM - imStart) / binSize),
\* clamped to [0, numBins-1], is that bin; and no call ends on an index
\* outside [0, numBins-1] (bin_spectrum raises only when binSize is 0).
C5_Pass0BinIsClampedFloor ==
    /\ pc = "error" => im_delta = 0
    /\ bin_calls > 0 =>
          /\ DOMAIN temp_bins[0] = 0..(num_bins - 1)
          /\ \A b \in DOMAIN temp_bins[0] :
                /\ Elements(temp_bins[0][b]) \subseteq Elements(points)
                /\ \A v \in Elements(points) :
                      Count(temp_bins[0][b], v) =
                          IF ExpectedBin0(v.im) = {b} THEN Count(points, v) ELSE 0

\* A call on num_bins >= 2 bins whose width is not a whole number, with a
\* point at im_end (clamped into the last bin) and a point in a bin before it.
C5_Witness ==
    /\ bin_calls > 0
    /\ num_bins >= 2
    /\ im_delta % num_bins # 0
    /\ \E k \in 1..Len(temp_bins[0][num_bins - 1]) :
          temp_bins[0][num_bins - 1][k].im = im_end
    /\ \E b \in 1..(num_bins - 2) : Len(temp_bins[0][b]) > 0

\* f = floor((im - im_offset) / bin_size), with im_offset = im_start + bin_size / 2.
IsFloorPass1(im, f) ==
    /\ f * 2 * im_delta <= 2 * num_bins * (im - im_start) - im_delta
    /\ 2 * num_bins * (im - im_start) - im_delta < (f + 1) * 2 * im_delta

\* The pass-1 bins the statement allows for a point of this IM.
ExpectedBin1(im) ==
    IF 2 * num_bins * (im - im_start) < im_delta THEN {0}
    ELSE {IF f + 1 > num_bins THEN num_bins ELSE f + 1 :
            f \in {g \in (-1)..(num_bins + 1) : IsFloorPass1(im, g)}}

\* C6: after every bin_spectrum call that returns, pass 1 has the
\* num_bins + 1 bins 0..num_bins (as has the cache set up by setup_bins),
\* and each holds exactly the points whose IM is below imOffset (bin 0) or
\* whose floor((IM - imOffset) / binSize) + 1, capped at numBins, is that bin.
C6_Pass1BinIsOffsetFloor ==
    /\ pc # "setup" => DOMAIN exps[1] = 0..num_bins
    /\ bin_calls > 0 =>
          /\ DOMAIN temp_bins[1] = 0..num_bins
          /\ \A b \in DOMAIN temp_bins[1] :
                /\ Elements(temp_bins[1][b]) \subseteq Elements(points)
                /\ \A v \in Elements(points) :
                      Count(temp_bins[1][b], v) =
                          IF ExpectedBin1(v.im) = {b} THEN Count(points, v) ELSE 0

\* A call on num_bins >= 2 bins that puts a point into bin 0, one into the
\* edge bin num_bins and one into a bin between them.
C6_Witness ==
    /\ bin_calls > 0
    /\ num_bins >= 2
    /\ Len(temp_bins[1][0]) > 0
    /\ Len(temp_bins[1][num_bins]) > 0
    /\ \E b \in 1..(num_bins - 1) : Len(temp_bins[1][b]) > 0

\* C7: after every bin_spectrum call that returns, in each pass the bins
\* hold together as many points as the spectrum has, each point of the
\* spectrum as often as the spectrum holds it; and no call on a nonzero bin
\* size ends without assigning its points.
C7_EveryPointInOneBinPerPass ==
    /\ pc = "error" => im_delta = 0
    /\ bin_calls > 0 =>
          \A pass \in {0, 1} :
              /\ Sum([k \in 1..(num_bins + pass) |-> Len(temp_bins[pass][k - 1])])
                     = Len(points)
              /\ \A v \in Elements(points) :
                    Sum([k \in 1..(num_bins + pass) |-> Count(temp_bins[pass][k - 1], v)])
                        = Count(points, v)

\* A call with three points that fall into at least two bins in each pass.
C7_Witness ==
    /\ bin_calls > 0
    /\ Len(points) = 3
    /\ \A pass \in {0, 1} :
          Cardinality({b \in DOMAIN temp_bins[pass] : Len(temp_bins[pass][b]) > 0}) >= 2

\* The last index of run k of a bin of n points whose runs start at starts.
RunEnd(starts, k, n) == IF k < Len(starts) THEN starts[k + 1] - 1 ELSE n

\* The runs of every bin of the last call partition the bin: they start at
\* its first point, each next run starts after the start of the one before,
\* and one merged point was emitted per run.
RunsPartition(pass, b) ==
    LET tb == temp_bins[pass][b]
        st == run_starts[pass][b]
    IN  /\ Len(st) = Len(new_bins[pass][b])
        /\ (Len(tb) = 0) = (Len(st) = 0)
        /\ Len(tb) > 0 => st[1] = 1
        /\ \A k \in 1..Len(st) : st[k] <= RunEnd(st, k, Len(tb))
        /\ \A k \in 1..Len(tb) : k = 1 \/ tb[k - 1].mz <= tb[k].mz

\* C8: after every bin_spectrum call that returns, in every bin of both
\* passes the runs partition the m/z-sorted points of the bin, every merged
\* point has the summed intensity of the points of its run, and so the
\* merged points have the total intensity of the points of the bin.
C8_MergedIntensityIsRunSum ==
    bin_calls > 0 =>
        \A pass \in {0, 1} : \A b \in DOMAIN temp_bins[pass] :
            LET tb == temp_bins[pass][b]
                st == run_starts[pass][b]
                nb == new_bins[pass][b]
            IN  /\ RunsPartition(pass, b)
                /\ \A k \in 1..Len(st) :
                      nb[k].intensity =
                          Sum([j \in 1..(RunEnd(st, k, Len(tb)) - st[k] + 1) |->
                                  tb[st[k] + j - 1].intensity])
                /\ Sum([k \in 1..Len(nb) |-> nb[k].intensity])
                       = Sum([k \in 1..Len(tb) |-> tb[k].intensity])

\* A bin with two runs, the first of two points.
C8_Witness ==
    /\ bin_calls > 0
    /\ \E pass \in {0, 1} : \E b \in DOMAIN temp_bins[pass] :
          /\ Len(run_starts[pass][b]) = 2
          /\ run_starts[pass][b][2] = 3
          /\ new_bins[pass][b][1].intensity = 40

\* C9: after every bin_spectrum call that returns, in every bin of both
\* passes every point of a run has an m/z within MZ_EPSILON of the m/z of
\* the first point of its run, the first point of every next run has not,
\* and the merged point of a run has the m/z, RT and IM of its first point.
C9_RunsAnchoredAtFirstPoint ==
    bin_calls > 0 =>
        \A pass \in {0, 1} : \A b \in DOMAIN temp_bins[pass] :
            LET tb == temp_bins[pass][b]
                st == run_starts[pass][b]
                nb == new_bins[pass][b]
            IN  /\ RunsPartition(pass, b)
                /\ \A k \in 1..Len(st) :
                      /\ \A j \in st[k]..RunEnd(st, k, Len(tb)) :
                            Abs(tb[j].mz - tb[st[k]].mz) <= MZ_EPSILON
                      /\ k < Len(st) =>
                            Abs(tb[st[k + 1]].mz - tb[st[k]].mz) > MZ_EPSILON
                      /\ nb[k].mz = tb[st[k]].mz
                      /\ nb[k].rt = tb[st[k]].rt
                      /\ nb[k].im = tb[st[k]].im

\* A bin in which a new run starts at a point that is within MZ_EPSILON of
\* the point before it, but not of the first point of the run before.
C9_Witness ==
    /\ bin_calls > 0
    /\ \E pass \in {0, 1} : \E b \in DOMAIN temp_bins[pass] :
          LET tb == temp_bins[pass][b]
              st == run_starts[pass][b]
          IN  /\ Len(st) = 2
              /\ st[2] = 3
              /\ Abs(tb[3].mz - tb[2].mz) <= MZ_EPSILON
              /\ tb[1].im # tb[2].im

\* The average IM the statement gives for a sequence of points.
ClaimedAverageIM(pts) ==
    LET total == Sum([k \in 1..Len(pts) |-> pts[k].intensity])
    IN  IF total = 0 THEN <<0, 1>>
        ELSE Fraction(Sum([k \in 1..Len(pts) |-> pts[k].im * pts[k].intensity]), total)

\* C10: once run has computed the average IM values, the value of every
\* bin of both passes is the intensity-weighted mean IM of all points that
\* the bin_spectrum calls assigned to the bin, and 0 when their intensities
\* sum to zero.
C10_AverageImOverAssignedPoints ==
    pc = "binned" =>
        \A pass \in {0, 1} : \A b \in PassBins(pass) :
            im_scan_nums[pass][b] = ClaimedAverageIM(assigned[pass][b])

(***************************************************************************)
(* Properties of write_exps and of the binning loop of run.                *)
(***************************************************************************)
\* The spectra stored for (pass, b): none while its file does not exist.
stored(fs, pass, b) == IF <<pass, b>> \in DOMAIN fs THEN fs[<<pass, b>>] ELSE <<>>

\* The files after the n-th write_exps call of the binning phase.
flush_result(n) == IF n < Len(last_flush) THEN last_flush[n + 1].files ELSE files

InBinningPhase == pc \in {"bin", "compute", "binned", "error"}

\* C13: the stored spectra of every bin followed by its cached ones are
\* the spectra appended to that bin, each once and in order; after every
\* write_exps call the store alone holds all that had been appended, and a
\* write_exps call with an empty cache leaves the content of every store
\* as it was.
C13_FlushIsLosslessAndIdempotent ==
    InBinningPhase =>
        /\ \A pass \in {0, 1} : \A b \in PassBins(pass) :
              stored(files, pass, b) \o exps[pass][b] = appended[pass][b]
        /\ pc \in {"compute", "binned"} =>
              \A pass \in {0, 1} : \A b \in PassBins(pass) :
                 /\ <<pass, b>> \in DOMAIN files
                 /\ files[<<pass, b>>] = appended[pass][b]
                 /\ exps[pass][b] = <<>>
        /\ \A n \in 1..Len(last_flush) :
              (\A pass \in {0, 1} : \A b \in PassBins(pass) :
                  last_flush[n].exps[pass][b] = <<>>) =>
                 \A pass \in {0, 1} : \A b \in PassBins(pass) :
                    stored(flush_result(n), pass, b) = stored(last_flush[n].files, pass, b)

\* A bin holds two spectra, stored by two write_exps calls.
C13_Witness ==
    /\ pc = "compute"
    /\ Len(last_flush) = 2
    /\ \E b \in PassBins(0) :
          /\ Len(last_flush[2].files[<<0, b>>]) = 1
          /\ Len(last_flush[2].exps[0][b]) = 1
          /\ Len(files[<<0, b>>]) = 2

\* C14: a write_exps call that finds no file for a bin completes, and the
\* file it stores for that bin holds exactly the spectra of the bin's cache.
C14_FirstWriteStoresCacheOnly ==
    InBinningPhase =>
        \A n \in 1..Len(last_flush) : \A pass \in {0, 1} : \A b \in PassBins(pass) :
           <<pass, b>> \notin DOMAIN last_flush[n].files =>
              /\ <<pass, b>> \in DOMAIN flush_result(n)
              /\ flush_result(n)[<<pass, b>>] = last_flush[n].exps[pass][b]

\* The first write_exps call found no file; it wrote a bin with a cached
\* spectrum and, after it, a bin with an empty cache.
C14_Witness ==
    /\ InBinningPhase
    /\ Len(last_flush) >= 1
    /\ DOMAIN last_flush[1].files = {}
    /\ \E j, k \in 1..Len(store_keys) :
          /\ j < k
          /\ Len(last_flush[1].exps[store_keys[j][1]][store_keys[j][2]]) = 1
          /\ last_flush[1].exps[store_keys[k][1]][store_keys[k][2]] = <<>>
          /\ flush_result(1)[store_keys[k]] = <<>>

\* C15: the stored spectra of every bin followed by its cached ones are in
\* strictly ascending RT, and each has the RT of an MS1 spectrum of the
\* data set that was binned already.
C15_PseudoSpectraInRtOrder ==
    InBinningPhase =>
        \A pass \in {0, 1} : \A b \in PassBins(pass) :
           LET s == stored(files, pass, b) \o exps[pass][b]
           IN  /\ \A k \in 1..(Len(s) - 1) : s[k].rt < s[k + 1].rt
               /\ \A k \in 1..Len(s) :
                     \E i \in 1..spec_idx :
                        dataset[i].ms_level = 1 /\ dataset[i].rt = s[k].rt

\* A bin has one stored spectrum and, from a later source spectrum, one
\* cached spectrum.
C15_Witness ==
    /\ pc = "bin"
    /\ \E pass \in {0, 1} : \E b \in PassBins(pass) :
          /\ Len(stored(files, pass, b)) = 1
          /\ Len(exps[pass][b]) = 1

\* C17: run does not start binning on an empty IM range (im_end = im_start),
\* and no bin_spectrum call fails because of one.
C17_EmptyRangeReportedBeforeBinning ==
    InBinningPhase => im_end # im_start

(***************************************************************************)
(* match_features_pass: the representative and the links of a chain.       *)
(***************************************************************************)
\* C18: the representative of every chain is a member of the chain of
\* maximum intensity, the head if the head has that intensity, and is
\* recorded with the bin it lies in.
C18_RepresentativeHasMaxIntensity ==
    pc \in {"pass_loop", "pass_done"} =>
        \A c \in 1..Len(mfp_chains) :
           \E k \in 1..Len(mfp_chains[c]) :
              /\ mfp_matched[c] = <<chain_feature(mfp_chains[c][k]), mfp_chains[c][k][1]>>
              /\ \A l \in 1..Len(mfp_chains[c]) :
                    chain_feature(mfp_chains[c][l]).intensity
                       <= chain_feature(mfp_chains[c][k]).intensity
              /\ chain_feature(mfp_chains[c][1]).intensity
                    = chain_feature(mfp_chains[c][k]).intensity => k = 1

\* A chain of a head and two links: the first link has the intensity of
\* the head, the second a larger one and is the representative.
C18_Witness ==
    /\ pc = "pass_done"
    /\ \E c \in 1..Len(mfp_chains) :
          /\ Len(mfp_chains[c]) = 3
          /\ chain_feature(mfp_chains[c][1]).intensity = 1
          /\ chain_feature(mfp_chains[c][2]).intensity = 1
          /\ chain_feature(mfp_chains[c][3]).intensity = 2
          /\ mfp_matched[c] = <<chain_feature(mfp_chains[c][3]), mfp_chains[c][3][1]>>

\* C19: the latest chain holds one feature of each bin from its head's bin
\* on; every bin after the head's was scanned in turn up to the first
\* without a candidate; the candidates of a scan are the features of the
\* bin that were not used and are similar to the head, all of them are
\* marked used and no other feature of the bin was marked by the scan; the
\* link is a candidate of maximum area.
C19_ChainExtendsWithoutGaps ==
    (pc \in {"pass_loop", "pass_done"} /\ Len(mfp_chains) > 0) =>
        LET chain == mfp_chains[Len(mfp_chains)]
            head  == chain[1]
            n     == Len(mfp_scans)
        IN  /\ \A k \in 1..Len(chain) : chain[k][1] = head[1] + k - 1
            /\ n \in {Len(chain) - 1, Len(chain)}
            /\ n = Len(chain) - 1 => head[1] + Len(chain) = Len(mfp_features)
            /\ \A s \in 1..n :
                  LET scan == mfp_scans[s]
                      bin  == mfp_features[scan.next_idx + 1]
                      cand == {scan.similar[k][2] : k \in 1..Len(scan.similar)}
                  IN  /\ scan.feature1 = chain_feature(head)
                      /\ scan.next_idx = head[1] + s
                      /\ scan.similar = all_pairs_candidates(scan)
                      /\ \A j \in 1..Len(bin) :
                            mfp_used[scan.next_idx + 1][j]
                               <=> (scan.used_before[j] \/ (j - 1) \in cand)
                      /\ (s < Len(chain)) <=> (cand # {})
                      /\ s < Len(chain) =>
                            /\ chain[s + 1][2] \in cand
                            /\ \A j \in cand :
                                  polygon_area(bin[j + 1].hull)
                                     <= polygon_area(chain_feature(chain[s + 1]).hull)

\* The latest chain has a link that was chosen among two candidates, the
\* second of which has the larger area, and stopped at the bin after it.
C19_Witness ==
    /\ pc = "pass_loop"
    /\ Len(mfp_chains) > 0
    /\ Len(mfp_chains[Len(mfp_chains)]) = 2
    /\ Len(mfp_scans) = 2
    /\ Len(mfp_scans[1].similar) = 2
    /\ polygon_area(mfp_scans[1].similar[1][1].hull)
          < polygon_area(mfp_scans[1].similar[2][1].hull)
    /\ mfp_chains[Len(mfp_chains)][2][2] = mfp_scans[1].similar[2][2]
    /\ mfp_scans[2].similar = <<>>

\* C20: in the first loop of match_features, every pass-1 representative
\* (f2, bin2) that an iteration for the pass-0 representative (f1, bin1)
\* puts in similar and marks used was not marked used before that iteration,
\* is similar to f1 and lies in bin bin1 or bin1 + 1; the iteration marks
\* no other representative and unmarks none.
C20_ConsumedOnlyIfFreeSimilarAndAdjacent ==
    \A n \in 1..Len(mf_steps) :
        LET st == mf_steps[n]
        IN  /\ \A e \in Elements(st.similar) :
                  \E j \in 1..Len(mf_pass2) :
                     /\ mf_pass2[j] = e
                     /\ ~st.used_before[j]
                     /\ st.used_after[j]
                     /\ similar_features(st.feature1, e[1], RT_THRESHOLD, MZ_THRESHOLD)
                     /\ e[2] \in {st.bin1, st.bin1 + 1}
            /\ \A j \in 1..Len(mf_pass2) :
                  /\ st.used_before[j] => st.used_after[j]
                  /\ (st.used_after[j] /\ ~st.used_before[j])
                        => mf_pass2[j] \in Elements(st.similar)

\* An iteration consumed a representative and left alone one that is
\* similar to its feature1 but lies in neither bin1 nor bin1 + 1.
C20_Witness ==
    \E n \in 1..Len(mf_steps) :
        LET st == mf_steps[n]
        IN  /\ Len(st.similar) > 0
            /\ \E j \in 1..Len(mf_pass2) :
                  /\ similar_features(st.feature1, mf_pass2[j][1], RT_THRESHOLD, MZ_THRESHOLD)
                  /\ mf_pass2[j][2] \notin {st.bin1, st.bin1 + 1}
                  /\ ~st.used_after[j]

(***************************************************************************)
(* Properties of run as a whole.                                           *)
(***************************************************************************)
\* The files the last write_exps call of the binning phase left.
final_flush_files ==
    write_exps(last_flush[Len(last_flush)].files, last_flush[Len(last_flush)].exps)

BeforeBinIm == pc \in {"setup", "bin", "compute", "error"}

C16_ComputedAfterBinningState ==
    /\ BeforeBinIm =>
          /\ im_scan_nums = [pass \in {0, 1} |-> <<>>]
          /\ ffIdle
          /\ mfIdle
    /\ ~BeforeBinIm =>
          /\ spec_idx = Len(dataset)
          /\ exps = reset_write_cache
          /\ \A pass \in {0, 1} :
                /\ DOMAIN im_scan_nums[pass] = PassBins(pass)
                /\ \A b \in PassBins(pass) :
                      im_scan_nums[pass][b]
                         = weighted_average_im(
                              experiment_points(stored(final_flush_files, pass, b)))

C16_ComputedOnceStep ==
    /\ im_scan_nums' # im_scan_nums => pc = "compute" /\ pc' = "binned"
    /\ pc' = "compute" => pc = "bin" /\ spec_idx = Len(dataset)
    /\ pc = "compute" => pc' = "binned"
    /\ ~BeforeBinIm => ~BeforeBinIm'

\* C16: im_scan_nums is empty until the step that follows the final
\* write_exps call, which is taken once, after every spectrum went through
\* the binning loop and before find_features or match_features has done
\* anything; that step gives every bin of both passes the average IM of
\* the file the final write_exps call left, and no later step changes
\* im_scan_nums.
C16_AverageImComputedOnceAfterBinning ==
    []C16_ComputedAfterBinningState /\ [][C16_ComputedOnceStep]_vars

\* run returned after matching detected features: the average IM of some
\* bin is not zero, and the temporary files are removed.
C16_Witness ==
    /\ pc = "done"
    /\ Len(features_im) = 1
    /\ Len(features_im[1]) > 0
    /\ files = <<>>
    /\ \E b \in PassBins(0) : im_scan_nums[0][b] # <<0, 1>>

\* The hypothesis of C12 on the feature finder: some peak has the IM
\* im_start + bin_size, every bin that received a point of that IM got
\* exactly one feature, no other bin got any, and the features are similar
\* to each other.
boundary_im_points(pass, b) ==
    SelectSeq(assigned[pass][b], LAMBDA q : q.im * num_bins = im_start * num_bins + im_delta)

BoundaryAnalyteDetected ==
    /\ \E pass \in {0, 1} : \E b \in PassBins(pass) : Len(boundary_im_points(pass, b)) > 0
    /\ \A pass \in {0, 1} : \A b \in PassBins(pass) :
          /\ b + 1 \in DOMAIN ff_raw[pass]
          /\ Len(ff_raw[pass][b + 1].features)
                = (IF Len(boundary_im_points(pass, b)) > 0 THEN 1 ELSE 0)
    /\ \A p1, p2 \in {0, 1} : \A b1 \in PassBins(p1) : \A b2 \in PassBins(p2) :
          \A f1 \in Elements(ff_raw[p1][b1 + 1].features) :
             \A f2 \in Elements(ff_raw[p2][b2 + 1].features) :
                similar_features(f1, f2, RT_THRESHOLD, MZ_THRESHOLD)

\* C11: once find_features has returned in a run with num_bins = 1, run_ff
\* and match_features_internal were applied to no bin of pass 1 and to bin
\* 0 of pass 0, match_features is never called, features-im.csv is never
\* written, and the feature map run returns is a result of
\* match_features_internal on what run_ff returned for bin 0 of pass 0.
C11_SingleBinSkipsMatching ==
    (num_bins = 1 /\ pc \in {"found", "done"}) =>
        /\ Len(ff_raw[0]) = 1
        /\ Len(ff_raw[1]) = 0
        /\ Len(ff_features[2]) = 0
        /\ mfIdle
        /\ features_im = <<>>
        /\ pc = "done" =>
              /\ Len(returned) = 1
              /\ returned[1] \in match_features_internal(ff_raw[0][1].features)

\* run returned with num_bins = 1: the file of pass-1 bin 0 has peaks, the
\* feature finder found two features in bin 0 of pass 0, and one is left.
C11_Witness ==
    /\ num_bins = 1
    /\ pc = "done"
    /\ has_peaks(stored(files, 1, 0))
    /\ ff_raw[0][1].ran
    /\ Len(ff_raw[0][1].features) = 2
    /\ Len(returned[1]) = 1

\* C12: when match_features has returned in a run with num_bins >= 2 in
\* which the feature finder found one feature in every bin that received a
\* point of IM im_start + bin_size and nothing else, these features being
\* similar to each other, then the first loop of match_features consumed
\* the pass-1 representative and the final list has exactly one entry.
C12_BoundaryAnalyteAppearsOnce ==
    (num_bins >= 2 /\ pc \in {"mf_done", "done"} /\ BoundaryAnalyteDetected) =>
        /\ Len(mf_clean_bins) = 1
        /\ Len(mf_pass1) = 1
        /\ Len(mf_pass2) = 1
        /\ bins_adjacent(mf_pass1[1][2], mf_pass2[1][2])
        /\ mf_used = <<TRUE>>
        /\ pc = "done" => Len(returned[1]) = 1

\* run returned one feature for an analyte on the boundary of pass-0 bins
\* 0 and 1, found in one bin of each pass.
C12_Witness ==
    /\ num_bins >= 2
    /\ pc = "done"
    /\ BoundaryAnalyteDetected
    /\ Len(ff_raw[0][2].features) = 1
    /\ \E b \in 1..Len(ff_raw[1]) : Len(ff_raw[1][b].features) = 1
    /\ Len(returned[1]) = 1

(***************************************************************************)
(* Properties of match_features.                                           *)
(***************************************************************************)
\* The average IM of the bin and pass whose feature map, as given to
\* match_features, holds the feature f.
own_bin_im(f) ==
    LET maps(pass) == IF pass = 0 THEN mf_features1 ELSE mf_features2
        loc == CHOOSE l \in {<<pass, b>> : pass \in {0, 1}, b \in 0..2} :
                  /\ l[2] < Len(maps(l[1]))
                  /\ f \in Elements(maps(l[1])[l[2] + 1])
    IN  im_scan_nums[loc[1]][loc[2]]

\* C21: the entry every iteration of the first loop appends holds feature1
\* or one of the candidates of similar, none of which has a larger polygon
\* area; that entry, every entry of feature_bins and every entry of the
\* final list carry the average IM of the bin and pass their feature lies
\* in.
C21_EntriesCarryOwnBinIm ==
    /\ \A n \in 1..Len(mf_steps) :
          LET st == mf_steps[n]
              members == {st.feature1} \cup {st.similar[k][1] : k \in 1..Len(st.similar)}
          IN  /\ st.max_feature[1] \in members
              /\ \A f \in members :
                    polygon_area(f.hull) <= polygon_area(st.max_feature[1].hull)
              /\ st.max_feature[2] = own_bin_im(st.max_feature[1])
    /\ \A e \in Elements(mf_feature_bins) : e[2] = own_bin_im(e[1])
    /\ \A e \in Elements(mf_clean_bins) : e[2] = own_bin_im(e[1])

\* match_features returned a list that holds a pass-1 feature an iteration
\* of the first loop preferred to its feature1, and a pass-0 feature.
C21_Witness ==
    /\ pc = "mf_done"
    /\ \E n \in 1..Len(mf_steps) :
          /\ mf_steps[n].max_feature[1] # mf_steps[n].feature1
          /\ mf_steps[n].max_feature \in Elements(mf_clean_bins)
    /\ \E e \in Elements(mf_clean_bins) :
          \E b \in 1..Len(mf_features1) : e[1] \in Elements(mf_features1[b])

\* The iterations of the first loop whose list similar holds pass2[j].
consumers_of(j) == {n \in 1..Len(mf_steps) : mf_pass2[j] \in Elements(mf_steps[n].similar)}

\* The indices of the pass-1 representatives that no iteration consumed.
unconsumed == {j \in 1..Len(mf_pass2) : consumers_of(j) = {}}

\* C22: no pass-1 representative is in the list similar of two iterations
\* of the first loop, and used marks those that are in one; every iteration
\* appended one entry to feature_bins; once the second loop has run,
\* feature_bins holds one entry for every pass-0 representative and one
\* for every pass-1 representative that was not consumed, the latter with
\* the average IM of its own pass-1 bin, and nothing else.
C22_CombinedListCountsEveryRepresentativeOnce ==
    /\ \A j \in 1..Len(mf_pass2) :
          /\ Cardinality(consumers_of(j)) <= 1
          /\ mf_used[j] <=> consumers_of(j) # {}
    /\ pc = "mf_step1" => Len(mf_feature_bins) = Len(mf_steps)
    /\ pc \in {"mf_cleanup", "mf_done"} =>
          /\ Len(mf_steps) = Len(mf_pass1)
          /\ Len(mf_feature_bins) = Len(mf_pass1) + Cardinality(unconsumed)
          /\ \A n \in 1..Len(mf_steps) :
                Count(mf_feature_bins, mf_steps[n].max_feature) = 1
          /\ \A j \in unconsumed :
                Count(mf_feature_bins,
                      <<mf_pass2[j][1], im_scan_nums[1][mf_pass2[j][2]]>>) = 1

\* The combined list holds the entry of a pass-0 representative that
\* consumed a pass-1 representative, and the entry of a pass-1
\* representative that was not consumed.
C22_Witness ==
    /\ pc = "mf_cleanup"
    /\ Len(mf_pass1) = 1
    /\ Len(mf_pass2) = 2
    /\ Cardinality(unconsumed) = 1
    /\ Len(mf_feature_bins) = 2

RECURSIVE clustering_scan(_, _, _, _)
\* The scan of match_features_internal (lines 243-251) for the anchor
\* entries[i + 1], on entries <<feature, IM>>, with the test for equal IM
\* added to similar_features.
clustering_scan(entries, i, j, similar) ==
    IF j >= Len(entries) THEN similar
    ELSE IF i = j THEN clustering_scan(entries, i, j + 1, similar)
    ELSE IF past_window(entries[i + 1][1], entries[j + 1][1]) THEN similar
    ELSE IF /\ similar_features(entries[i + 1][1], entries[j + 1][1],
                                RT_THRESHOLD, MZ_THRESHOLD)
            /\ entries[i + 1][2] = entries[j + 1][2]
         THEN clustering_scan(entries, i, j + 1, Append(similar, entries[j + 1]))
         ELSE clustering_scan(entries, i, j + 1, similar)

RECURSIVE clustering_loop(_, _, _)
\* The loop of match_features_internal (lines 235-260) on such entries:
\* every entry anchors a scan, the entry of largest area among the anchor
\* and its peers is appended unless matched holds it.
clustering_loop(entries, i, matched) ==
    IF i >= Len(entries) THEN matched
    ELSE LET first_idx == binary_search_left_rt2(entries, entries[i + 1][1].rt - RT_THRESHOLD)
             peers == clustering_scan(entries, i, first_idx, <<>>)
             max_feature == mfc_max_area(peers, 1, polygon_area(entries[i + 1][1].hull),
                                         entries[i + 1])
         IN  clustering_loop(entries, i + 1,
                             IF \E k \in 1..Len(matched) : matched[k] = max_feature
                             THEN matched
                             ELSE Append(matched, max_feature))

\* Every feature map given to match_features is one that
\* match_features_internal returns unchanged, as find_features builds them.
InputsAreDeduplicated ==
    \A b \in Elements(mf_features1) \cup Elements(mf_features2) :
        b \in match_features_internal(b)

\* C23: on feature maps that match_features_internal leaves unchanged, the
\* entries match_features returns are the entries the clustering procedure
\* of match_features_internal, with equal IM added to the similarity test,
\* returns on the combined list sorted by RT.
C23_CleanupEqualsClustering ==
    (pc = "mf_done" /\ InputsAreDeduplicated) =>
        Elements(mf_clean_bins) = Elements(clustering_loop(mf_feature_bins, 0, <<>>))

\* C24: the list match_features returns holds no two entries of equal IM
\* whose features are similar.
C24_FinalListIsDeduplicated ==
    pc = "mf_done" =>
        \A a, b \in 1..Len(mf_clean_bins) :
            (/\ a # b
             /\ mf_clean_bins[a][2] = mf_clean_bins[b][2])
               => ~similar_features(mf_clean_bins[a][1], mf_clean_bins[b][1],
                                    RT_THRESHOLD, MZ_THRESHOLD)

=============================================================================
